---- MODULE Spec2Model ----
(***************************************************************************)
(* Betaflight backup extension: the content script's backup run            *)
(* (content.js), the background service worker that owns the archive       *)
(* (background script, listed in README.md) and the user's start / stop    *)
(* requests.                                                               *)
(*                                                                         *)
(* The content script is one JavaScript event loop: code between two       *)
(* awaits runs without interruption, and the message listener runs only    *)
(* while the run is suspended at an await.  pc names the place of the run; *)
(* the places of AwaitPcs are the suspension points.  The background is    *)
(* another event loop and its handlers interleave freely with the run.     *)
(***************************************************************************)
EXTENDS Integers, Sequences, FiniteSets, TLC

\* ------------------------------------------------------------------ bounds
MaxTabs == 2
MaxStarts == 3
MaxStops == 1
MaxFaults == 1
MaxSwitchFaults == 4
MaxPolls == 3
MaxPidOptions == 2
MaxShots == 2
MaxCaptureFails == 3
MaxTicks == 18
MaxDeltas == 2

\* ------------------------------------------------------- program constants
DISCOVERY_ATTEMPTS == 10
SWITCH_RETRIES == 3
SCROLL_THRESHOLD == 100
BOTTOM_TOLERANCE == 5
NOISE_THRESHOLD == 10
MIN_CAPTURE_INTERVAL == 1100
CAPTURE_ATTEMPTS == 3
BACKOFF_BASE == 1500

\* --------------------------------------------------------------- the panels
BLACKLIST == <<"tab_landing", "tab_firmware_flasher", "tab_presets">>

Classes ==
    {"tab_landing", "tab_firmware_flasher", "tab_presets",
     "tab_setup", "tab_setup_osd", "tab_pid_tuning", "tab_cli"}

\* A class name as the sequence of its words: String.includes is modelled on it.
ClassTokens(c) ==
    CASE c = "tab_landing" -> <<"tab", "landing">>
      [] c = "tab_firmware_flasher" -> <<"tab", "firmware", "flasher">>
      [] c = "tab_presets" -> <<"tab", "presets">>
      [] c = "tab_setup" -> <<"tab", "setup">>
      [] c = "tab_setup_osd" -> <<"tab", "setup", "osd">>
      [] c = "tab_pid_tuning" -> <<"tab", "pid", "tuning">>
      [] c = "tab_cli" -> <<"tab", "cli">>
      [] OTHER -> <<c>>

\* s.includes(t)
Includes(s, t) ==
    \E i \in 0..(Len(s) - Len(t)) : SubSeq(s, i + 1, i + Len(t)) = t

SeqToSet(s) == {s[i] : i \in 1..Len(s)}

BlacklistedNoPresets(cls) ==
    \E b \in {"tab_landing", "tab_firmware_flasher"} :
        Includes(ClassTokens(cls), ClassTokens(b))

\* BLACKLIST.some(b => tab.cls.includes(b))
Blacklisted(cls) ==
    \E b \in SeqToSet(BLACKLIST) : Includes(ClassTokens(cls), ClassTokens(b))

\* TAB_ENGLISH_NAMES[tab.cls] || (the name derived from the class)
EnglishName(cls) ==
    CASE cls = "tab_setup" -> "Setup"
      [] cls = "tab_pid_tuning" -> "PID_Tuning"
      [] cls = "tab_cli" -> "CLI"
      [] cls = "tab_setup_osd" -> "Setup_Osd"
      [] cls = "tab_landing" -> "Landing"
      [] cls = "tab_firmware_flasher" -> "Firmware_Flasher"
      [] cls = "tab_presets" -> "Presets"
      [] OTHER -> cls

Options ==
    [screenshots : BOOLEAN, cli : BOOLEAN, profiles : BOOLEAN,
     hasSelection : BOOLEAN, selectedTabs : SUBSET Classes]

TabFilterSelectionBeforeCli(tab, options) ==
    IF Blacklisted(tab.cls) THEN FALSE
    ELSE IF options.hasSelection /\ options.selectedTabs # {}
            /\ tab.cls \notin options.selectedTabs THEN FALSE
    ELSE IF tab.cls = "tab_cli" /\ ~options.cli THEN FALSE
    ELSE IF ~options.screenshots /\ tab.cls # "tab_cli" THEN FALSE
    ELSE TRUE

\* The predicate of tabs.filter(...) in startBackupProcess.
TabFilter(tab, options) ==
    IF Blacklisted(tab.cls) THEN FALSE
    ELSE IF tab.cls = "tab_cli" /\ ~options.cli THEN FALSE
    ELSE IF ~options.screenshots /\ tab.cls # "tab_cli" THEN FALSE
    ELSE IF options.hasSelection /\ options.selectedTabs # {}
            /\ tab.cls # "tab_cli"
         THEN (IF tab.cls \notin options.selectedTabs THEN FALSE ELSE TRUE)
    ELSE TRUE

RECURSIVE FilterTabs(_, _)
FilterTabs(tabs, options) ==
    IF tabs = <<>> THEN <<>>
    ELSE (IF TabFilter(Head(tabs), options) THEN <<Head(tabs)>> ELSE <<>>)
         \o FilterTabs(Tail(tabs), options)

\* ---------------------------------------------------- connectivity probing
ConnDoms ==
    [bem : {"absent", "active", "inactive"},
     classic : {"absent", "active", "inactive"},
     indicator : BOOLEAN, navVisible : BOOLEAN]

\* isConnected(): "true", "false" or "null" (unknown).
isConnected(dom) ==
    IF dom.bem # "absent"
    THEN (IF dom.bem = "active" THEN "true" ELSE "false")
    ELSE IF dom.classic # "absent"
    THEN (IF dom.classic = "active" THEN "true" ELSE "false")
    ELSE IF dom.indicator THEN "true"
    ELSE IF dom.navVisible THEN "true"
    ELSE "null"

AbortsOnUnknown(connected) == connected # "true"

\* The test `connected === false` of the three connection checks.
ProbeAborts(connected) == connected = "false"


\* ------------------------------------------------------------------- state
VARIABLES
    \* content script globals (content.js 13-14, 60, 101)
    backupRunning, abortRequested, keepaliveInterval, progressState,
    \* the run: its place and the locals of the functions on its stack
    pc, run, sub, cas, cyc, ssv, cli,
    \* the page the content script drives, and the scenario it runs in
    page, env,
    \* background service worker globals and its session storage
    isRunning, backupZip, rootFolderName, activeTabId, backupStatus,
    pkgs, notifications,
    \* messages in flight: background -> content script, content script -> background
    toContent, toBg,
    \* what the environment may still do, and the record of what happened
    budget, hist,
    \* the capture service on its own (content.js 118, 281-305): the clock,
    \* the time of the last request, the calls in progress, the requests issued
    clock, lastCaptureTime, shots, captureLog,
    \* the stitcher on its own (content.js 235-279): its inputs and its canvas
    canvas,
    \* the two request/response exchanges with the background on their own:
    \* one call of cliSend (content.js 874-952) and the closures of the
    \* background's captureTab handler, one per requester
    sending, captures

contentVars == <<backupRunning, abortRequested, keepaliveInterval, progressState>>
localVars == <<run, sub, cas, cyc, ssv, cli>>
bgVars == <<isRunning, backupZip, rootFolderName, activeTabId, backupStatus,
            pkgs, notifications>>
vars == <<backupRunning, abortRequested, keepaliveInterval, progressState,
          pc, run, sub, cas, cyc, ssv, cli, page, env,
          isRunning, backupZip, rootFolderName, activeTabId, backupStatus,
          pkgs, notifications, toContent, toBg, budget, hist,
          clock, lastCaptureTime, shots, captureLog, canvas, sending, captures>>
svcVars == <<clock, lastCaptureTime, shots, captureLog, canvas, sending, captures>>

Elements == {"statusbar", "footer"}
ElementOrder == <<"statusbar", "footer">>

NoZip == [id |-> 0, files |-> {}]
NoStatus == [action |-> "none", message |-> "none", current |-> 0, total |-> 0]
NoOptions ==
    [screenshots |-> FALSE, cli |-> FALSE, profiles |-> FALSE,
     hasSelection |-> FALSE, selectedTabs |-> {}]

RunIdle ==
    [options |-> NoOptions, tabs |-> <<>>, filteredTabs |-> <<>>, ti |-> 1,
     idx |-> 1, attempt |-> 0, err |-> "none"]
SubIdle == [count |-> 0, subIdx |-> 0, label |-> "none", name |-> "none", located |-> "none"]
CasIdle ==
    [folder |-> <<0, "none">>, base |-> <<0, 0, "none">>, ret |-> "none", parts |-> 0,
     scrollDeltas |-> <<>>, hiddenEls |-> <<>>, prevScrollTop |-> 0,
     scrolled |-> FALSE]
CycIdle ==
    [subTabCount |-> 0, hasRate |-> FALSE, originalPid |-> 0, originalRate |-> 0,
     pidCount |-> 0, rateCount |-> 0, p |-> 0, r |-> 0]
SsvIdle == [control |-> "none", value |-> 0, attempt |-> 0, ret |-> "none", result |-> FALSE]
CliIdle == [c |-> 0, lastLen |-> 0, stable |-> 0, polls |-> 0, lens |-> <<>>, ops |-> <<>>,
            out |-> [len |-> 0, blank |-> 0]]

\* What the last call of setSelectValueVerified returned, and after how many sets.
NotSwitched == [returned |-> "none", control |-> "none", value |-> 0, sets |-> 0]

HistIdle ==
    [runs |-> 0, activeRuns |-> 0, clicks |-> <<>>, dispatched |-> <<>>,
     outcome |-> "none", probeDisconnected |-> FALSE, cancelInLoop |-> FALSE,
     cancelInCycling |-> FALSE,
     cycling |-> "no", origPid |-> 0, origRate |-> 0, hasRate |-> FALSE,
     restorePid |-> 0, restoreRate |-> 0, restorePidOk |-> "none",
     restoreRateOk |-> "none",
     emitted |-> <<>>, rejected |-> 0, dropped |-> 0, downloads |-> {},
     hideExit |-> "none",
     timers |-> 0, singles |-> 0, singleFails |-> 0, stopped |-> {},
     subClicks |-> {}, switched |-> NotSwitched, idleAbort |-> FALSE]

\* The state after both scripts are loaded, in scenario e with budgets b.
InitFrom(e, b) ==
    /\ backupRunning = FALSE
    /\ abortRequested = FALSE
    /\ keepaliveInterval = FALSE
    /\ progressState = [current |-> 0, total |-> 0]
    /\ pc = "idle"
    /\ run = RunIdle
    /\ sub = SubIdle
    /\ cas = CasIdle
    /\ cyc = CycIdle
    /\ ssv = SsvIdle
    /\ cli = CliIdle
    /\ page = [pidValue |-> e.pid0, rateValue |-> e.rate0, display |-> e.display0,
               scrollTop |-> 0, expertChecked |-> e.expertChecked]
    /\ env = e
    /\ isRunning = FALSE
    /\ backupZip = NoZip
    /\ rootFolderName = 0
    /\ activeTabId = FALSE
    /\ backupStatus = NoStatus
    /\ pkgs = {}
    /\ notifications = {}
    /\ toContent = <<>>
    /\ toBg = <<>>
    /\ budget = b
    /\ hist = HistIdle


\* ------------------------------------------------------- background script
NoProgress == [current |-> -1, total |-> -1]

\* The record updateStatus stores in chrome.storage.session (and relays).
Status(action, message, progress) ==
    [action |-> action, message |-> message,
     current |-> progress.current, total |-> progress.total]

RunExtractionMsg(o) == [action |-> "runExtraction", options |-> o]
AbortMsg == [action |-> "abortBackup", options |-> NoOptions]

\* The saveFile handler: the file goes into the archive of the moment, if any.
SaveFile(zip, folder, file) ==
    IF zip.id = 0 THEN zip
    ELSE [zip EXCEPT !.files = @ \cup {[folder |-> folder, file |-> file,
                                        run |-> hist.runs]}]

\* if (isRunning) { ...; return; } of handleStartBackup
StartRejected(running) == running

\* handleStartBackup(tabId, options), from the popup or the keyboard shortcut.
handleStartBackup(o) ==
    /\ budget.starts > 0
    /\ budget' = [budget EXCEPT !.starts = @ - 1]
    /\ IF StartRejected(isRunning)
       THEN /\ backupStatus' = Status("backupError", "Backup is already running.", NoProgress)
            /\ hist' = [hist EXCEPT !.rejected = @ + 1]
            /\ UNCHANGED <<isRunning, backupZip, rootFolderName, activeTabId, toContent>>
       ELSE /\ isRunning' = TRUE
            /\ backupZip' = [id |-> rootFolderName + 1, files |-> {}]
            /\ rootFolderName' = rootFolderName + 1
            /\ backupStatus' = Status("backupStatusUpdate", "Starting backup...", NoProgress)
            /\ activeTabId' = TRUE
            /\ toContent' = Append(toContent, RunExtractionMsg(o))
            /\ UNCHANGED hist
    /\ UNCHANGED <<contentVars, pc, localVars, page, env, pkgs, notifications, toBg>>
    /\ UNCHANGED svcVars

UserStart == \E o \in env.optionChoices : handleStartBackup(o)

\* The stopBackup handler.
StopBackup ==
    /\ budget.stops > 0
    /\ budget' = [budget EXCEPT !.stops = @ - 1]
    /\ IF isRunning /\ activeTabId
       THEN /\ toContent' = Append(toContent, AbortMsg)
            /\ isRunning' = FALSE
            /\ backupZip' = NoZip
            /\ backupStatus' = Status("backupError", "Backup stopped by user.", NoProgress)
            \* hist.stopped: the runs of the content script that were in
            \* progress when a stop was handled
            /\ hist' = [hist EXCEPT !.stopped =
                            IF hist.activeRuns > 0 THEN @ \cup {hist.runs} ELSE @]
       ELSE UNCHANGED <<toContent, isRunning, backupZip, backupStatus, hist>>
    /\ UNCHANGED <<contentVars, pc, localVars, page, env, rootFolderName, activeTabId,
                   pkgs, notifications, toBg>>
    /\ UNCHANGED svcVars

\* The extractionComplete and extractionError handlers.
BgReceive ==
    /\ toBg # <<>>
    /\ toBg' = Tail(toBg)
    /\ LET m == Head(toBg) IN
       IF m.action = "extractionComplete"
       THEN IF backupZip.id = 0
            THEN /\ isRunning' = FALSE
                 /\ backupStatus' = Status("backupError", "Internal error: ZIP object lost.", NoProgress)
                 /\ UNCHANGED <<pkgs, notifications>>
            ELSE /\ backupStatus' = Status("backupStatusUpdate", "Generating ZIP file...", NoProgress)
                 /\ pkgs' = pkgs \cup {[stage |-> "generating", zip |-> backupZip, name |-> 0]}
                 /\ UNCHANGED <<isRunning, notifications>>
       ELSE /\ isRunning' = FALSE
            /\ backupStatus' = Status("backupError", m.message, NoProgress)
            /\ notifications' = notifications \cup {<<"backup-error", m.message>>}
            /\ UNCHANGED pkgs
    /\ UNCHANGED <<contentVars, pc, localVars, page, env, backupZip, rootFolderName,
                   activeTabId, toContent, budget, hist>>
    /\ UNCHANGED svcVars

\* backupZip.generateAsync(...) settles: .then starts the download, .catch reports.
GenerateSettles ==
    \E job \in pkgs :
      /\ job.stage = "generating"
      /\ \/ /\ pkgs' = (pkgs \ {job}) \cup
                         {[job EXCEPT !.stage = "downloading", !.name = rootFolderName]}
            /\ UNCHANGED <<isRunning, backupStatus, budget>>
         \/ /\ budget.faults > 0
            /\ budget' = [budget EXCEPT !.faults = @ - 1]
            /\ pkgs' = pkgs \ {job}
            /\ isRunning' = FALSE
            /\ backupStatus' = Status("backupError", "Failed to build ZIP", NoProgress)
      /\ UNCHANGED <<contentVars, pc, localVars, page, env, backupZip, rootFolderName,
                     activeTabId, notifications, toContent, toBg, hist>>
      /\ UNCHANGED svcVars

\* The callback of chrome.downloads.download.
DownloadSettles ==
    \E job \in pkgs :
      /\ job.stage = "downloading"
      /\ pkgs' = pkgs \ {job}
      /\ isRunning' = FALSE
      /\ backupZip' = NoZip
      /\ \/ /\ backupStatus' = Status("backupComplete", "Backup completed!", NoProgress)
            /\ notifications' = notifications \cup {<<"backup-done", "ready">>}
            /\ hist' = [hist EXCEPT !.downloads = @ \cup {job.zip}]
            /\ UNCHANGED budget
         \/ /\ budget.faults > 0
            /\ budget' = [budget EXCEPT !.faults = @ - 1]
            /\ backupStatus' = Status("backupError", "Download failed", NoProgress)
            /\ UNCHANGED <<notifications, hist>>
      /\ UNCHANGED <<contentVars, pc, localVars, page, env, rootFolderName,
                     activeTabId, toContent, toBg>>
      /\ UNCHANGED svcVars


\* ------------------------------------------- content script: the listener
\* The places where the run is suspended at an await (or there is no run).
AwaitPcs ==
    {"idle", "sleep_expert", "sleep_discover", "sleep_nav", "sub_sleep",
     "cas_measure", "cas_single", "cas_wait", "cas_shot", "cas_stitch",
     "ssv_verify", "pid_switched", "rate_switched", "restore_done",
     "cli_ready", "cli_loop", "cli_sent", "cli_poll_sleep", "cli_read"}

\* The places of the run inside the panel loop of startBackupProcess.
LoopPcs == AwaitPcs \ {"idle", "sleep_expert", "sleep_discover"}

AcceptsWhileRunning(running) == FALSE

\* if (backupRunning) { ...; return; } of the runExtraction branch
DuplicateSignal(running) == running

\* abortRequested = false when a runExtraction is accepted.
FlagKept(flag) == flag
FlagAtStart(flag) == FALSE

\* chrome.runtime.onMessage listener of the content script.
OnMessage ==
    /\ pc \in AwaitPcs
    /\ toContent # <<>>
    /\ toContent' = Tail(toContent)
    /\ LET m == Head(toContent) IN
       IF m.action = "runExtraction"
       THEN IF DuplicateSignal(backupRunning)
            THEN /\ hist' = [hist EXCEPT !.dropped = @ + 1]
                 /\ UNCHANGED <<backupRunning, abortRequested, pc, run>>
            ELSE /\ backupRunning' = TRUE
                 /\ abortRequested' = FlagAtStart(abortRequested)
                 /\ pc' = "sbp_entry"
                 /\ run' = [RunIdle EXCEPT !.options = m.options]
                 /\ hist' = [hist EXCEPT !.runs = @ + 1, !.activeRuns = @ + 1,
                                         !.clicks = <<>>, !.dispatched = <<>>,
                                         !.singles = 0, !.singleFails = 0,
                                         !.subClicks = {}, !.switched = NotSwitched,
                                         !.outcome = "running",
                                         !.probeDisconnected = FALSE,
                                         !.cancelInLoop = FALSE, !.cycling = "no",
                                         !.cancelInCycling = FALSE,
                                         !.origPid = 0, !.origRate = 0, !.hasRate = FALSE,
                                         !.restorePid = 0, !.restoreRate = 0,
                                         !.restorePidOk = "none", !.restoreRateOk = "none",
                                         !.emitted = <<>>]
       ELSE /\ abortRequested' = TRUE
            /\ hist' = [hist EXCEPT !.cancelInLoop =
                                        @ \/ (backupRunning /\ pc \in LoopPcs),
                                    !.cancelInCycling =
                                        @ \/ (backupRunning /\ hist.cycling = "entered"),
                                    !.idleAbort = @ \/ ~backupRunning]
            /\ UNCHANGED <<backupRunning, pc, run>>
    /\ UNCHANGED <<keepaliveInterval, progressState, sub, cas, cyc, ssv, cli, page, env,
                   bgVars, toBg, budget>>
    /\ UNCHANGED svcVars

\* ------------------------------------- content script: startBackupProcess
\* throw: the locals of the frames left behind are dropped.
Throw(e) ==
    /\ pc' = "throw"
    /\ run' = [run EXCEPT !.err = e]
    /\ sub' = SubIdle
    /\ cas' = CasIdle
    /\ cyc' = CycIdle
    /\ ssv' = SsvIdle
    /\ cli' = CliIdle

SetStatus(msg, progress) ==
    backupStatus' = Status("backupStatusUpdate", msg, progress)

\* The keepalive timer: k.interval is keepaliveInterval (set or null), k.timers
\* the number of setInterval timers that have not been cleared.
Keepalive == [interval |-> keepaliveInterval, timers |-> hist.timers]

startKeepalive(k) ==
    IF k.interval THEN k ELSE [interval |-> TRUE, timers |-> k.timers + 1]

StopKeepaliveNever(k) == k
stopKeepalive(k) ==
    IF k.interval THEN [interval |-> FALSE, timers |-> k.timers - 1] ELSE k

\* Entry: first status, keepalive, expert mode.
SbpEntry ==
    /\ pc = "sbp_entry"
    /\ keepaliveInterval' = startKeepalive(Keepalive).interval
    /\ hist' = [hist EXCEPT !.timers = startKeepalive(Keepalive).timers]
    /\ IF ~page.expertChecked
       THEN /\ SetStatus("Enabling Expert Mode...", progressState)
            /\ page' = [page EXCEPT !.expertChecked = TRUE]
            /\ pc' = "sleep_expert"
       ELSE /\ SetStatus("Starting backup...", progressState)
            /\ pc' = "discover"
            /\ UNCHANGED page
    /\ UNCHANGED <<backupRunning, abortRequested, progressState, localVars, env,
                   isRunning, backupZip, rootFolderName, activeTabId, pkgs, notifications,
                   toContent, toBg, budget>>
    /\ UNCHANGED svcVars

ExpertSettled ==
    /\ pc = "sleep_expert"
    /\ pc' = "discover"
    /\ UNCHANGED <<contentVars, localVars, page, env, bgVars, toContent, toBg, budget, hist>>
    /\ UNCHANGED svcVars

TabDescriptors == [i \in 1..Len(env.tabs) |-> [cls |-> env.tabs[i], label |-> env.labels[i]]]

\* One attempt of the discovery loop; on success the tabs are mapped and filtered.
Discover ==
    /\ pc = "discover"
    /\ IF run.attempt >= env.navReadyAfter
       THEN LET filtered == FilterTabs(TabDescriptors, run.options) IN
            /\ run' = [run EXCEPT !.tabs = TabDescriptors, !.filteredTabs = filtered]
            /\ progressState' = [current |-> 0, total |-> Len(filtered)]
            /\ pc' = "loop_top"
            /\ UNCHANGED backupStatus
       ELSE /\ SetStatus("Waiting for Betaflight UI...", progressState)
            /\ pc' = "sleep_discover"
            /\ UNCHANGED <<run, progressState>>
    /\ UNCHANGED <<backupRunning, abortRequested, keepaliveInterval, sub, cas, cyc, ssv, cli,
                   page, env, isRunning, backupZip, rootFolderName, activeTabId, pkgs,
                   notifications, toContent, toBg, budget, hist>>
    /\ UNCHANGED svcVars

\* attempt++ and the test of the discovery loop.
DiscoveryUnbounded(attempt) == TRUE
DiscoveryLeft(attempt) == attempt + 1 < DISCOVERY_ATTEMPTS

DiscoverRetry ==
    /\ pc = "sleep_discover"
    /\ IF DiscoveryLeft(run.attempt)
       THEN /\ run' = [run EXCEPT !.attempt = @ + 1]
            /\ pc' = "discover"
            /\ UNCHANGED <<sub, cas, cyc, ssv, cli>>
       ELSE Throw("Navigation not found")
    /\ UNCHANGED <<contentVars, page, env, bgVars, toContent, toBg, budget, hist>>
    /\ UNCHANGED svcVars

\* Top of the panel loop: checkAbort, connection check, progress, navigation click.
LoopTop ==
    /\ pc = "loop_top"
    /\ IF run.ti > Len(run.filteredTabs)
       THEN /\ pc' = "finish"
            /\ UNCHANGED <<progressState, localVars, backupStatus, budget, hist>>
       ELSE IF abortRequested
       THEN /\ Throw("Backup stopped by user.")
            /\ UNCHANGED <<progressState, backupStatus, budget, hist>>
       ELSE \E dom \in ConnDoms :
            IF ProbeAborts(isConnected(dom))
            THEN /\ Throw("Connection lost")
                 /\ hist' = [hist EXCEPT !.probeDisconnected = (isConnected(dom) = "false")]
                 /\ UNCHANGED <<progressState, backupStatus, budget>>
            ELSE LET tab == run.filteredTabs[run.ti]
                     prog == [current |-> run.idx, total |-> Len(run.filteredTabs)] IN
                 /\ progressState' = prog
                 /\ SetStatus("Tab", prog)
                 /\ UNCHANGED <<sub, cas, cyc, ssv, cli>>
                 /\ \/ /\ pc' = "sleep_nav"
                       /\ hist' = [hist EXCEPT !.clicks = Append(@, tab.cls),
                                               !.probeDisconnected = (isConnected(dom) = "false")]
                       /\ UNCHANGED <<run, budget>>
                    \/ /\ budget.faults > 0
                       /\ budget' = [budget EXCEPT !.faults = @ - 1]
                       /\ run' = [run EXCEPT !.ti = @ + 1]
                       /\ pc' = "loop_top"
                       /\ hist' = [hist EXCEPT !.probeDisconnected = (isConnected(dom) = "false")]
    /\ UNCHANGED <<backupRunning, abortRequested, keepaliveInterval, page, env,
                   isRunning, backupZip, rootFolderName, activeTabId, pkgs, notifications,
                   toContent, toBg>>
    /\ UNCHANGED svcVars

\* After the navigation settle delay: hand the panel to its unit.
Dispatch ==
    /\ pc = "sleep_nav"
    /\ LET tab == run.filteredTabs[run.ti] IN
       /\ hist' = [hist EXCEPT !.dispatched = Append(@, tab.cls)]
       /\ IF tab.cls = "tab_cli"
          THEN pc' = "cli_entry" /\ UNCHANGED sub
          ELSE IF tab.cls = "tab_pid_tuning" /\ run.options.profiles
          THEN pc' = "pid_entry" /\ UNCHANGED sub
          ELSE /\ pc' = "sub_entry"
               /\ sub' = [SubIdle EXCEPT !.name = EnglishName(tab.cls), !.label = tab.label]
    /\ UNCHANGED <<contentVars, run, cas, cyc, ssv, cli, page, env, bgVars,
                   toContent, toBg, budget>>
    /\ UNCHANGED svcVars

Advance ==
    /\ pc = "advance"
    /\ run' = [run EXCEPT !.idx = @ + 1, !.ti = @ + 1]
    /\ pc' = "loop_top"
    /\ UNCHANGED <<contentVars, sub, cas, cyc, ssv, cli, page, env, bgVars,
                   toContent, toBg, budget, hist>>
    /\ UNCHANGED svcVars

\* The loop is over: final progress, extractionComplete, then both finally blocks.
Finish ==
    /\ pc = "finish"
    /\ progressState' = [current |-> Len(run.filteredTabs), total |-> Len(run.filteredTabs)]
    /\ SetStatus("Building ZIP...", progressState')
    /\ toBg' = Append(toBg, [action |-> "extractionComplete", message |-> "none"])
    /\ keepaliveInterval' = stopKeepalive(Keepalive).interval
    /\ backupRunning' = FALSE
    /\ abortRequested' = FALSE
    /\ pc' = "idle"
    /\ run' = RunIdle
    /\ hist' = [hist EXCEPT !.activeRuns = @ - 1, !.outcome = "complete",
                            !.idleAbort = FALSE,
                            !.timers = stopKeepalive(Keepalive).timers,
                            !.emitted = @ \o <<"extractionComplete", "stopKeepalive",
                                                "flagsCleared">>]
    /\ UNCHANGED <<sub, cas, cyc, ssv, cli, page, env, isRunning, backupZip, rootFolderName,
                   activeTabId, pkgs, notifications, toContent, budget>>
    /\ UNCHANGED svcVars

\* catch (e): what the handler sends to the background.
ErrorUnreported(err) == <<>>
ErrorReport(err) == <<[action |-> "extractionError", message |-> err]>>

\* An exception reaches the top: finally of startBackupProcess, catch and finally
\* of the runExtraction handler.
Unwind ==
    /\ pc = "throw"
    /\ keepaliveInterval' = stopKeepalive(Keepalive).interval
    /\ toBg' = toBg \o ErrorReport(run.err)
    /\ backupRunning' = FALSE
    /\ abortRequested' = FALSE
    /\ pc' = "idle"
    /\ run' = RunIdle
    /\ hist' = [hist EXCEPT !.activeRuns = @ - 1,
                            !.idleAbort = FALSE,
                            !.timers = stopKeepalive(Keepalive).timers,
                            !.outcome = IF run.err = "Backup stopped by user."
                                        THEN "cancelled" ELSE "failed",
                            !.emitted = @ \o <<"stopKeepalive">>
                                          \o [i \in 1..Len(ErrorReport(run.err)) |->
                                                ErrorReport(run.err)[i].action]
                                          \o <<"flagsCleared">>]
    /\ UNCHANGED <<progressState, sub, cas, cyc, ssv, cli, page, env, bgVars,
                   toContent, budget>>
    /\ UNCHANGED svcVars


\* ------------------------------------------ content script: captureAndSave
Min(a, b) == IF a < b THEN a ELSE b

\* rect.height > 5: an element that is not displayed has an empty rectangle.
RectTallEnough(el, display) == display[el] # "none"

\* One pass over the document: hide the candidates that are tall enough.
RECURSIVE HidePass(_, _, _, _)
HidePass(els, candidates, display, hidden) ==
    IF els = <<>> THEN [display |-> display, hidden |-> hidden]
    ELSE LET el == Head(els) IN
         IF el \in candidates /\ RectTallEnough(el, display)
         THEN HidePass(Tail(els), candidates, [display EXCEPT ![el] = "none"],
                       Append(hidden, [el |-> el, prev |-> display[el]]))
         ELSE HidePass(Tail(els), candidates, display, hidden)

\* Strategy 1 (fixed / sticky elements at the bottom) then strategy 2 (siblings
\* below the scroll container).
hideStickyBottomElements(display, e) ==
    LET s1 == HidePass(ElementOrder, e.fixedBottom, display, <<>>) IN
    HidePass(ElementOrder, e.belowScroll, s1.display, s1.hidden)

RestoreNothing(display, hidden) == display

RECURSIVE restoreStickyBottomElements(_, _)
restoreStickyBottomElements(display, hidden) ==
    IF hidden = <<>> THEN display
    ELSE restoreStickyBottomElements([display EXCEPT ![Head(hidden).el] = Head(hidden).prev],
                                     Tail(hidden))

AtBottomNever(top) == FALSE
AtBottom(top) == top + env.clientHeight >= env.scrollHeight - BOTTOM_TOLERANCE

\* captureAndSave(folderName, baseFileName) is entered: scrollTop = 0, sleep(300).
CallCas(folder, base, ret) ==
    /\ cas' = [CasIdle EXCEPT !.folder = folder, !.base = base, !.ret = ret]
    /\ page' = [page EXCEPT !.scrollTop = 0]
    /\ pc' = "cas_measure"

FileName(base, part) == [base |-> base, part |-> part]

\* if (maxScroll <= 100): not meaningfully scrollable.
SinglePathNever(maxScroll) == FALSE
SinglePath(maxScroll) == maxScroll <= SCROLL_THRESHOLD

\* maxScroll is measured: single screenshot, or hide the bottom bars and scroll.
CasMeasure ==
    /\ pc = "cas_measure"
    /\ IF SinglePath(env.scrollHeight - env.clientHeight)
       THEN /\ pc' = "cas_single"
            /\ UNCHANGED <<cas, page>>
       ELSE LET h == hideStickyBottomElements(page.display, env) IN
            /\ cas' = [cas EXCEPT !.hiddenEls = h.hidden]
            /\ page' = [page EXCEPT !.display = h.display, !.scrollTop = 0]
            /\ pc' = "cas_wait"
    /\ UNCHANGED <<contentVars, run, sub, cyc, ssv, cli, env, bgVars, toContent, toBg,
                   budget, hist>>
    /\ UNCHANGED svcVars

\* The single screenshot comes back: save it, or warn.
CasSingle ==
    /\ pc = "cas_single"
    /\ pc' = cas.ret
    /\ cas' = CasIdle
    /\ \/ /\ backupZip' = SaveFile(backupZip, cas.folder, FileName(cas.base, 0))
          /\ hist' = [hist EXCEPT !.singles = @ + 1]
          /\ UNCHANGED <<backupStatus, budget>>
       \/ /\ budget.faults > 0
          /\ budget' = [budget EXCEPT !.faults = @ - 1]
          /\ SetStatus("WARNING: Screenshot failed", progressState)
          /\ hist' = [hist EXCEPT !.singles = @ + 1, !.singleFails = @ + 1]
          /\ UNCHANGED backupZip
    /\ UNCHANGED <<contentVars, run, sub, cyc, ssv, cli, page, env, isRunning,
                   rootFolderName, activeTabId, pkgs, notifications, toContent, toBg>>
    /\ UNCHANGED svcVars

\* Top of the scroll loop (after the settle delay): the measured delta of the
\* previous step is recorded, checkAbort, then the screenshot is requested.
CasLoop ==
    /\ pc = "cas_wait"
    /\ IF abortRequested
       THEN /\ Throw("Backup stopped by user.")
            /\ page' = [page EXCEPT !.display =
                            restoreStickyBottomElements(page.display, cas.hiddenEls)]
            /\ hist' = [hist EXCEPT !.hideExit = IF cas.hiddenEls # <<>> THEN "abort" ELSE @]
       ELSE /\ cas' = [cas EXCEPT
                         !.scrollDeltas = IF cas.scrolled
                                          THEN Append(@, page.scrollTop - cas.prevScrollTop)
                                          ELSE @,
                         !.scrolled = FALSE]
            /\ pc' = "cas_shot"
            /\ UNCHANGED <<run, sub, cyc, ssv, cli, page, hist>>
    /\ UNCHANGED <<contentVars, env, bgVars, toContent, toBg, budget>>
    /\ UNCHANGED svcVars

\* Leaving the try block of captureAndSave: finally restores the hidden elements.
CasLeave(kind) ==
    /\ cas' = CasIdle
    /\ page' = [page EXCEPT !.display =
                    restoreStickyBottomElements(page.display, cas.hiddenEls)]
    /\ hist' = [hist EXCEPT !.hideExit = IF cas.hiddenEls # <<>> THEN kind ELSE @]

CasReturn(kind) ==
    /\ pc' = cas.ret
    /\ CasLeave(kind)

\* Where control goes after `break` on a failed capture: with two or more parts
\* to the stitcher, otherwise captureAndSave returns to its caller.
AfterFailureThrows(parts, ret) == "throw"
AfterFailure(parts, ret) == IF parts >= 2 THEN "cas_stitch" ELSE ret

\* A screenshot of the scroll loop comes back.
CasShot ==
    /\ pc = "cas_shot"
    /\ \/ \* the capture failed: warn and leave the loop with the parts so far
          /\ budget.faults > 0
          /\ budget' = [budget EXCEPT !.faults = @ - 1]
          /\ SetStatus("WARNING: Screenshot failed", progressState)
          /\ pc' = AfterFailure(cas.parts, cas.ret)
          /\ IF cas.parts = 0
             THEN /\ CasLeave("capture failed")
                  /\ UNCHANGED backupZip
             ELSE IF cas.parts = 1
             THEN /\ CasLeave("capture failed")
                  /\ backupZip' = SaveFile(backupZip, cas.folder, FileName(cas.base, 0))
             ELSE UNCHANGED <<cas, page, backupZip, hist>>
       \/ \* the capture succeeded
          /\ UNCHANGED <<budget, backupStatus>>
          /\ IF AtBottom(page.scrollTop)
             THEN IF cas.parts = 0
                  THEN /\ CasReturn("done")
                       /\ backupZip' = SaveFile(backupZip, cas.folder, FileName(cas.base, 0))
                  ELSE /\ cas' = [cas EXCEPT !.parts = @ + 1]
                       /\ pc' = "cas_stitch"
                       /\ UNCHANGED <<page, backupZip, hist>>
             ELSE /\ cas' = [cas EXCEPT !.parts = @ + 1, !.prevScrollTop = page.scrollTop,
                                        !.scrolled = TRUE]
                  /\ page' = [page EXCEPT !.scrollTop =
                                  Min(@ + env.clientHeight, env.scrollHeight - env.clientHeight)]
                  /\ pc' = "cas_wait"
                  /\ UNCHANGED <<backupZip, hist>>
    /\ UNCHANGED <<contentVars, run, sub, cyc, ssv, cli, env, isRunning, rootFolderName,
                   activeTabId, pkgs, notifications, toContent, toBg>>
    /\ UNCHANGED svcVars

\* for (let i = 0; i < parts.length; i++) saveToZip(..._part${i + 1}.jpg, parts[i])
SaveLastPart(zip, folder, base, n) ==
    IF n = 0 THEN zip ELSE SaveFile(zip, folder, FileName(base, n))

RECURSIVE SaveParts(_, _, _, _)
SaveParts(zip, folder, base, n) ==
    IF n = 0 THEN zip
    ELSE SaveFile(SaveParts(zip, folder, base, n - 1), folder, FileName(base, n))

\* stitchScreenshots settles: one composite, or on a decode failure every part.
CasStitched ==
    /\ pc = "cas_stitch"
    /\ CasReturn("done")
    /\ \/ \* every images[i + 1] the draw loop reads exists, and every image decodes
          /\ Len(cas.scrollDeltas) < cas.parts
          /\ backupZip' = SaveFile(backupZip, cas.folder, FileName(cas.base, 0))
          /\ UNCHANGED budget
       \/ \* drawImage of a missing image throws: the catch returns null
          /\ Len(cas.scrollDeltas) >= cas.parts
          /\ backupZip' = SaveParts(backupZip, cas.folder, cas.base, cas.parts)
          /\ UNCHANGED budget
       \/ \* an image fails to decode: the catch returns null
          /\ budget.faults > 0
          /\ budget' = [budget EXCEPT !.faults = @ - 1]
          /\ backupZip' = SaveParts(backupZip, cas.folder, cas.base, cas.parts)
    /\ UNCHANGED <<contentVars, run, sub, cyc, ssv, cli, env, isRunning, rootFolderName,
                   activeTabId, backupStatus, pkgs, notifications, toContent, toBg>>
    /\ UNCHANGED svcVars


\* ----------------------------------- content script: captureTabWithSubTabs
\* findVisibleSubTabs().length: the first selector with more than one visible match.
SubTabsFound == IF env.subTabCount > 1 THEN env.subTabCount ELSE 0

\* folder = `${pad(idx)}_${englishName}`
FolderFromLabel == <<run.idx, run.filteredTabs[run.ti].label>>
Folder == <<run.idx, EnglishName(run.filteredTabs[run.ti].cls)>>

\* A click on a sub-tab element: the unit that clicks, the place where the
\* element was located, and the place of the click.
SubClicked(h, unit, located) ==
    [h EXCEPT !.subClicks = @ \cup {[unit |-> unit, located |-> located, at |-> pc]}]

\* clickSubTab(index): findVisibleSubTabs() and the click in one synchronous step.
clickSubTab(h, unit, index) ==
    IF SubTabsFound > index THEN SubClicked(h, unit, pc) ELSE h

\* Entry: with sub-tabs, click the first; without, capture the panel.
SubEntry ==
    /\ pc = "sub_entry"
    /\ IF SubTabsFound > 1
       THEN /\ sub' = [sub EXCEPT !.count = SubTabsFound, !.subIdx = 1,
                                  !.located = "sub_entry"]
            /\ hist' = SubClicked(hist, "panel", "sub_entry")
            /\ SetStatus("SubTab", progressState)
            /\ pc' = "sub_sleep"
            /\ UNCHANGED <<cas, page>>
       ELSE /\ SetStatus("Screenshot", progressState)
            /\ CallCas(Folder, <<run.idx, 1, sub.name>>, "advance")
            /\ sub' = SubIdle
            /\ UNCHANGED hist
    /\ UNCHANGED <<contentVars, run, cyc, ssv, cli, env, isRunning, backupZip,
                   rootFolderName, activeTabId, pkgs, notifications, toContent, toBg,
                   budget>>
    /\ UNCHANGED svcVars

\* After the settle delay of a sub-tab click: capture it.
SubCapture ==
    /\ pc = "sub_sleep"
    /\ CallCas(Folder, <<run.idx, sub.subIdx, "SubTab">>, "sub_captured")
    /\ UNCHANGED <<contentVars, run, sub, cyc, ssv, cli, env, bgVars, toContent, toBg,
                   budget, hist>>
    /\ UNCHANGED svcVars

\* captureAndSave returned: the next sub-tab is clicked, or the unit returns.
SubNext ==
    /\ pc = "sub_captured"
    /\ IF sub.subIdx < sub.count
       THEN /\ sub' = [sub EXCEPT !.subIdx = @ + 1]
            /\ hist' = SubClicked(hist, "panel", sub.located)
            /\ SetStatus("SubTab", progressState)
            /\ pc' = "sub_sleep"
       ELSE /\ sub' = SubIdle
            /\ pc' = "advance"
            /\ UNCHANGED <<backupStatus, hist>>
    /\ UNCHANGED <<contentVars, run, cas, cyc, ssv, cli, page, env, isRunning, backupZip,
                   rootFolderName, activeTabId, pkgs, notifications, toContent, toBg,
                   budget>>
    /\ UNCHANGED svcVars


\* ---------------------------------- content script: setSelectValueVerified
ControlValue(control) == IF control = "pid" THEN page.pidValue ELSE page.rateValue

\* setSelectValueVerified(select, value) is entered.
CallSsv(control, value, ret) ==
    /\ ssv' = [control |-> control, value |-> value, attempt |-> 0, ret |-> ret,
               result |-> FALSE]
    /\ pc' = "ssv_attempt"

\* One set through the bridge: the control takes the value, or it does not.
SsvAttempt ==
    /\ pc = "ssv_attempt"
    /\ pc' = "ssv_verify"
    /\ \/ /\ page' = IF ssv.control = "pid"
                     THEN [page EXCEPT !.pidValue = ssv.value]
                     ELSE [page EXCEPT !.rateValue = ssv.value]
          /\ UNCHANGED budget
       \/ /\ budget.switchFaults > 0
          /\ budget' = [budget EXCEPT !.switchFaults = @ - 1]
          /\ UNCHANGED page
    /\ UNCHANGED <<contentVars, localVars, env, bgVars, toContent, toBg, hist>>
    /\ UNCHANGED svcVars

VerifiedUnread(current, target) == TRUE

\* select.value === strValue
Verified(current, target) == current = target

\* attempt <= retries holds for the next attempt
RetryAlways(attempt) == TRUE
RetryLeft(attempt) == attempt < SWITCH_RETRIES

\* The read-back after the settle delay: return true, retry, or give up.
SsvVerify ==
    /\ pc = "ssv_verify"
    /\ LET ok == Verified(ControlValue(ssv.control), ssv.value) IN
       IF ok \/ ~RetryLeft(ssv.attempt)
       THEN /\ pc' = ssv.ret
            /\ ssv' = SsvIdle
            /\ hist' = LET h == [hist EXCEPT !.switched =
                                        [returned |-> IF ok THEN "true" ELSE "false",
                                         control |-> ssv.control, value |-> ssv.value,
                                         sets |-> ssv.attempt + 1]] IN
                       IF ssv.ret = "restore_pid_done"
                       THEN [h EXCEPT !.restorePidOk = IF ok THEN "true" ELSE "false"]
                       ELSE IF ssv.ret = "restore_done"
                       THEN [h EXCEPT !.restoreRateOk = IF ok THEN "true" ELSE "false"]
                       ELSE h
       ELSE /\ ssv' = [ssv EXCEPT !.attempt = @ + 1]
            /\ pc' = "ssv_attempt"
            /\ UNCHANGED hist
    /\ UNCHANGED <<contentVars, run, sub, cas, cyc, cli, page, env, bgVars, toContent, toBg,
                   budget>>
    /\ UNCHANGED svcVars

\* -------------------------------------- content script: handlePidTuningTab
\* Sub-tab count and the two selects; cycle, or fall back to the plain capture.
\* if (pidSelect && pidSelect.options.length > 1)
CyclesWithOne(pidCount) == pidCount > 0
Cycles(pidCount) == pidCount > 1

PidEntry ==
    /\ pc = "pid_entry"
    /\ IF Cycles(env.pidCount)
       THEN /\ cyc' = [subTabCount |-> SubTabsFound, hasRate |-> env.rateCount > 0,
                       originalPid |-> page.pidValue,
                       originalRate |-> IF env.rateCount > 0 THEN page.rateValue ELSE 0,
                       pidCount |-> env.pidCount, rateCount |-> env.rateCount,
                       p |-> 0, r |-> 0]
            /\ hist' = [hist EXCEPT !.cycling = "entered", !.origPid = page.pidValue,
                                    !.origRate = page.rateValue,
                                    !.hasRate = env.rateCount > 0]
            /\ pc' = "pid_loop"
            /\ UNCHANGED sub
       ELSE /\ sub' = [SubIdle EXCEPT !.name = "PID_Tuning", !.label = "PID Tuning"]
            /\ pc' = "sub_entry"
            /\ UNCHANGED <<cyc, hist>>
    /\ UNCHANGED <<contentVars, run, cas, ssv, cli, page, env, bgVars, toContent, toBg,
                   budget>>
    /\ UNCHANGED svcVars

\* Top of the PID profile loop: checkAbort, then the verified switch.
PidLoop ==
    /\ pc = "pid_loop"
    /\ IF cyc.p < cyc.pidCount
       THEN IF abortRequested
            THEN Throw("Backup stopped by user.") /\ UNCHANGED backupStatus
            ELSE /\ SetStatus("PID Profile", progressState)
                 /\ CallSsv("pid", cyc.p + 1, "pid_switched")
                 /\ UNCHANGED <<run, sub, cas, cyc, cli>>
       ELSE /\ pc' = "rate_phase"
            /\ UNCHANGED <<localVars, backupStatus>>
    /\ UNCHANGED <<contentVars, page, env, isRunning, backupZip, rootFolderName,
                   activeTabId, pkgs, notifications, toContent, toBg, budget, hist>>
    /\ UNCHANGED svcVars

\* After the switch and its settle delay: clickSubTab(0), capture.
PidSwitched ==
    /\ pc = "pid_switched"
    /\ hist' = clickSubTab(hist, "cycling", 0)
    /\ CallCas(Folder, <<run.idx, cyc.p + 1, "PID_Profile">>, "pid_captured")
    /\ UNCHANGED <<contentVars, run, sub, cyc, ssv, cli, env, bgVars, toContent, toBg,
                   budget>>
    /\ UNCHANGED svcVars

PidCaptured ==
    /\ pc = "pid_captured"
    /\ cyc' = [cyc EXCEPT !.p = @ + 1]
    /\ pc' = "pid_loop"
    /\ UNCHANGED <<contentVars, run, sub, cas, ssv, cli, page, env, bgVars, toContent,
                   toBg, budget, hist>>
    /\ UNCHANGED svcVars

\* The Rates sub-tab: a loop over the rate profiles, one capture, or nothing.
RatePhase ==
    /\ pc = "rate_phase"
    /\ IF cyc.subTabCount > 1
       THEN IF cyc.hasRate /\ cyc.rateCount > 1
            THEN pc' = "rate_loop" /\ UNCHANGED <<cas, page, hist>>
            ELSE /\ hist' = clickSubTab(hist, "cycling", 1)
                 /\ CallCas(Folder, <<run.idx, 0, "Rates">>, "filter_phase")
       ELSE pc' = "filter_phase" /\ UNCHANGED <<cas, page, hist>>
    /\ UNCHANGED <<contentVars, run, sub, cyc, ssv, cli, env, bgVars, toContent, toBg,
                   budget>>
    /\ UNCHANGED svcVars

RateLoop ==
    /\ pc = "rate_loop"
    /\ IF cyc.r < cyc.rateCount
       THEN IF abortRequested
            THEN Throw("Backup stopped by user.") /\ UNCHANGED backupStatus
            ELSE /\ SetStatus("Rate Profile", progressState)
                 /\ CallSsv("rate", cyc.r + 1, "rate_switched")
                 /\ UNCHANGED <<run, sub, cas, cyc, cli>>
       ELSE /\ pc' = "filter_phase"
            /\ UNCHANGED <<localVars, backupStatus>>
    /\ UNCHANGED <<contentVars, page, env, isRunning, backupZip, rootFolderName,
                   activeTabId, pkgs, notifications, toContent, toBg, budget, hist>>
    /\ UNCHANGED svcVars

RateSwitched ==
    /\ pc = "rate_switched"
    /\ hist' = clickSubTab(hist, "cycling", 1)
    /\ CallCas(Folder, <<run.idx, cyc.r + 1, "Rates_Profile">>, "rate_captured")
    /\ UNCHANGED <<contentVars, run, sub, cyc, ssv, cli, env, bgVars, toContent, toBg,
                   budget>>
    /\ UNCHANGED svcVars

RateCaptured ==
    /\ pc = "rate_captured"
    /\ cyc' = [cyc EXCEPT !.r = @ + 1]
    /\ pc' = "rate_loop"
    /\ UNCHANGED <<contentVars, run, sub, cas, ssv, cli, page, env, bgVars, toContent,
                   toBg, budget, hist>>
    /\ UNCHANGED svcVars

\* The Filter sub-tab is captured once.
\* if (subTabCount > 2): the third sub-tab holds the global filter settings.
HasGlobalSubTabFromTwo(count) == count > 1
HasGlobalSubTab(count) == count > 2

FilterPhase ==
    /\ pc = "filter_phase"
    /\ IF HasGlobalSubTab(cyc.subTabCount)
       THEN /\ SetStatus("Filter settings...", progressState)
            /\ hist' = clickSubTab(hist, "cycling", 2)
            /\ CallCas(Folder, <<run.idx, 0, "Filter">>, "restore")
       ELSE /\ pc' = "restore"
            /\ UNCHANGED <<cas, page, backupStatus, hist>>
    /\ UNCHANGED <<contentVars, run, sub, cyc, ssv, cli, env, isRunning, backupZip,
                   rootFolderName, activeTabId, pkgs, notifications, toContent, toBg,
                   budget>>
    /\ UNCHANGED svcVars

\* Restore original profiles: the PID select first.
RestorePid ==
    /\ pc = "restore"
    /\ SetStatus("Restoring original profiles...", progressState)
    /\ CallSsv("pid", cyc.originalPid, "restore_pid_done")
    /\ hist' = [hist EXCEPT !.restorePid = cyc.originalPid]
    /\ UNCHANGED <<contentVars, run, sub, cas, cyc, cli, page, env, isRunning, backupZip,
                   rootFolderName, activeTabId, pkgs, notifications, toContent, toBg,
                   budget>>
    /\ UNCHANGED svcVars

\* if (rateSelect && originalRate != null) the rate select is restored too.
RestoreRate ==
    /\ pc = "restore_pid_done"
    /\ IF cyc.hasRate
       THEN /\ CallSsv("rate", cyc.originalRate, "restore_done")
            /\ hist' = [hist EXCEPT !.restoreRate = cyc.originalRate]
       ELSE /\ pc' = "restore_done"
            /\ UNCHANGED <<ssv, hist>>
    /\ UNCHANGED <<contentVars, run, sub, cas, cyc, cli, page, env, bgVars, toContent,
                   toBg, budget>>
    /\ UNCHANGED svcVars

\* handlePidTuningTab returns after the last settle delay.
PidReturn ==
    /\ pc = "restore_done"
    /\ pc' = "advance"
    /\ cyc' = CycIdle
    /\ hist' = [hist EXCEPT !.cycling = "returned"]
    /\ UNCHANGED <<contentVars, run, sub, cas, ssv, cli, page, env, bgVars, toContent,
                   toBg, budget>>
    /\ UNCHANGED svcVars


\* ------------------------------------------------ content script: handleCliTab
\* Lengths the terminal output may be read with.
CliLens == {0, 8, 40, 80, 120}

\* One connection check of the CLI unit: a fatal error exactly on "false".
CliProbe(dom, next) ==
    IF ProbeAborts(isConnected(dom))
    THEN /\ Throw("Connection lost")
         /\ hist' = [hist EXCEPT !.probeDisconnected = (isConnected(dom) = "false")]
    ELSE /\ next
         /\ hist' = [hist EXCEPT !.probeDisconnected = (isConnected(dom) = "false")]

CliEntry ==
    /\ pc = "cli_entry"
    /\ SetStatus("Extracting CLI configuration...", progressState)
    /\ pc' = "cli_ready"
    /\ UNCHANGED <<contentVars, localVars, page, env, isRunning, backupZip, rootFolderName,
                   activeTabId, pkgs, notifications, toContent, toBg, budget, hist>>
    /\ UNCHANGED svcVars

\* After the terminal's start-up delay: connection check, diagnostics.
CliReady ==
    /\ pc = "cli_ready"
    /\ \E dom \in ConnDoms :
         CliProbe(dom, /\ pc' = "cli_loop"
                       /\ cli' = CliIdle
                       /\ UNCHANGED <<run, sub, cas, cyc, ssv>>)
    /\ UNCHANGED <<contentVars, page, env, bgVars, toContent, toBg, budget>>
    /\ UNCHANGED svcVars

\* const commands = [{ cmd: "diff all", ... }, { cmd: "dump all", ... }]
CliCmdDumpFirst(c) == IF c = 0 THEN "dump all" ELSE "diff all"
CliCmd(c) == IF c = 0 THEN "diff all" ELSE "dump all"

\* cli.ops is the record of the terminal operations of this extraction.
CliOp(op) == [op |-> op, cmd |-> CliCmd(cli.c)]

\* Top of the command loop: checkAbort, connection check, cliClear, cliSend.
CliCommand ==
    /\ pc = "cli_loop"
    /\ IF cli.c >= 2
       THEN /\ pc' = "advance"
            /\ cli' = CliIdle
            /\ UNCHANGED <<run, sub, cas, cyc, ssv, backupStatus, hist>>
       ELSE IF abortRequested
       THEN /\ Throw("Backup stopped by user.")
            /\ UNCHANGED <<backupStatus, hist>>
       ELSE \E dom \in ConnDoms :
              /\ CliProbe(dom, /\ pc' = "cli_sent"
                               /\ cli' = [cli EXCEPT !.ops = Append(@, CliOp("clear")),
                                                     !.out = CliIdle.out]
                               /\ UNCHANGED <<run, sub, cas, cyc, ssv>>)
              /\ IF ProbeAborts(isConnected(dom))
                 THEN SetStatus("WARNING: Connection lost during CLI extraction.",
                                progressState)
                 ELSE SetStatus("CLI: cmd", progressState)
    /\ UNCHANGED <<contentVars, page, env, isRunning, backupZip, rootFolderName,
                   activeTabId, pkgs, notifications, toContent, toBg, budget>>
    /\ UNCHANGED svcVars

\* cliSend settles: sent, or no strategy worked and the command is skipped.
CliSent ==
    /\ pc = "cli_sent"
    /\ \/ /\ SetStatus("Waiting for response...", progressState)
          /\ cli' = [cli EXCEPT !.lastLen = 0, !.stable = 0, !.polls = 0, !.lens = <<>>,
                                !.ops = @ \o <<CliOp("sent"), CliOp("wait")>>]
          /\ pc' = "cli_wait_top"
          /\ UNCHANGED budget
       \/ /\ budget.faults > 0
          /\ budget' = [budget EXCEPT !.faults = @ - 1]
          /\ SetStatus("WARNING: Could not send - skipping.", progressState)
          /\ cli' = [cli EXCEPT !.c = @ + 1, !.ops = Append(@, CliOp("unsent"))]
          /\ pc' = "cli_loop"
    /\ UNCHANGED <<contentVars, run, sub, cas, cyc, ssv, page, env, isRunning, backupZip,
                   rootFolderName, activeTabId, pkgs, notifications, toContent, toBg, hist>>
    /\ UNCHANGED svcVars

\* cliWaitForStableOutput: the loop test (the time limit allows MaxPolls polls)
\* and the first checkAbort.
TimeLeftAlways(polls) == TRUE
TimeLeft(polls) == polls < MaxPolls

CliWaitTop ==
    /\ pc = "cli_wait_top"
    /\ IF TimeLeft(cli.polls)
       THEN IF abortRequested
            THEN Throw("Backup stopped by user.")
            ELSE pc' = "cli_poll_sleep" /\ UNCHANGED localVars
       ELSE pc' = "cli_after_wait" /\ UNCHANGED localVars
    /\ UNCHANGED <<contentVars, page, env, bgVars, toContent, toBg, budget, hist>>
    /\ UNCHANGED svcVars

\* After sleep(1000): the second checkAbort, then cliRead is requested.
CliPoll ==
    /\ pc = "cli_poll_sleep"
    /\ IF abortRequested
       THEN Throw("Backup stopped by user.")
       ELSE pc' = "cli_read" /\ UNCHANGED localVars
    /\ UNCHANGED <<contentVars, page, env, bgVars, toContent, toBg, budget, hist>>
    /\ UNCHANGED svcVars

\* The first test on a polled length: it is more than any length seen before.
GrewNever(len, lastLen) == FALSE
Grew(len, lastLen) == len > lastLen

\* cliRead settles: growth resets the stable count, two stable reads end the wait.
\* cli.lens is the record of the lengths polled in this wait.
CliRead ==
    /\ pc = "cli_read"
    /\ \E len \in CliLens :
         IF Grew(len, cli.lastLen)
         THEN /\ cli' = [cli EXCEPT !.lastLen = len, !.stable = 0, !.polls = @ + 1,
                                    !.lens = Append(@, len)]
              /\ pc' = "cli_wait_top"
         ELSE IF len > 0
         THEN IF cli.stable + 1 >= 2
              THEN /\ cli' = [cli EXCEPT !.stable = @ + 1, !.lens = Append(@, len)]
                   /\ pc' = "cli_after_wait"
              ELSE /\ cli' = [cli EXCEPT !.stable = @ + 1, !.polls = @ + 1,
                                         !.lens = Append(@, len)]
                   /\ pc' = "cli_wait_top"
         ELSE /\ cli' = [cli EXCEPT !.polls = @ + 1, !.lens = Append(@, len)]
              /\ pc' = "cli_wait_top"
    /\ UNCHANGED <<contentVars, run, sub, cas, cyc, ssv, page, env, bgVars, toContent,
                   toBg, budget, hist>>
    /\ UNCHANGED svcVars

CliFile(c) == IF c = 0 THEN "diff_all.txt" ELSE "dump_all.txt"

\* The texts the final cliRead may return: len is output.length, blank the
\* number of its leading and trailing whitespace characters.
CliOutputs == {[len |-> 0, blank |-> 0], [len |-> 10, blank |-> 0],
               [len |-> 11, blank |-> 0], [len |-> 14, blank |-> 4],
               [len |-> 40, blank |-> 2]}

\* output && output.trim().length > 10
WorthSavingAtThreshold(out) == out.len - out.blank >= NOISE_THRESHOLD
WorthSaving(out) == out.len - out.blank > NOISE_THRESHOLD

\* After the wait: connection check, final read, save when it is more than noise.
CliAfterWait ==
    /\ pc = "cli_after_wait"
    /\ \E dom \in ConnDoms :
         /\ CliProbe(dom, /\ pc' = "cli_loop"
                          /\ \E out \in CliOutputs :
                               cli' = [cli EXCEPT !.c = @ + 1, !.lens = <<>>,
                                                  !.ops = Append(@, CliOp("read")),
                                                  !.out = out]
                          /\ UNCHANGED <<run, sub, cas, cyc, ssv>>)
         /\ IF ProbeAborts(isConnected(dom))
            THEN /\ SetStatus("WARNING: Connection lost while waiting for CLI output.",
                              progressState)
                 /\ UNCHANGED backupZip
            ELSE   IF WorthSaving(cli'.out)
                   THEN /\ backupZip' = SaveFile(backupZip, <<0, "CLI">>, FileName(<<0, cli.c, CliFile(cli.c)>>, 0))
                        /\ SetStatus("saved", progressState)
                   ELSE /\ SetStatus("WARNING: No output.", progressState)
                        /\ UNCHANGED backupZip
    /\ UNCHANGED <<contentVars, page, env, isRunning, rootFolderName, activeTabId, pkgs,
                   notifications, toContent, toBg, budget>>
    /\ UNCHANGED svcVars


\* ------------------------------------------------------- the capture service
\* requestScreenshot on its own, called by Callers that may overlap. Time is the
\* value of Date.now() in milliseconds and passes in steps of TickMs.
Callers == {1, 2}
TickMs == MIN_CAPTURE_INTERVAL \div 2
StartTime == 2 * MIN_CAPTURE_INTERVAL
EndTime == StartTime + MaxTicks * TickMs

\* One call: wake is the time its timer is due and, while a request is
\* pending, the time the request was sent; issued counts its requests.
ShotIdle == [pc |-> "idle", attempt |-> 0, wake |-> 0, result |-> "none",
             issued |-> 0]
\* The stitcher's inputs (the size of the equal-size captures, window.innerWidth,
\* the scroll deltas) and its canvas: its size and the drawImage calls made.
NoCanvas == [imgHeight |-> 0, imgWidth |-> 0, innerWidth |-> 1, scrollDeltas |-> <<>>,
             done |-> FALSE, width |-> 0, height |-> 0, draws |-> <<>>]

SvcIdle ==
    /\ clock = StartTime
    /\ lastCaptureTime = 0
    /\ shots = [c \in Callers |-> ShotIdle]
    /\ captureLog = [times |-> <<>>, calls |-> 0, failed |-> 0]
    /\ canvas = NoCanvas
    /\ sending = [pc |-> "idle"]
    /\ captures = <<>>

\* What the callbacks of chrome.runtime.sendMessage can be handed: a runtime
\* error, no response, the error responses of the background script (the one
\* of captureVisibleTab and the one of its 10 s timeout), or the image.
CaptureResponses ==
    { [lastError |-> TRUE, res |-> "none"],
      [lastError |-> FALSE, res |-> "none"],
      [lastError |-> FALSE, res |-> "error"],
      [lastError |-> FALSE, res |-> "timeout"],
      [lastError |-> FALSE, res |-> "dataUrl"] }

\* The value the promise of one attempt resolves with.
Resolve(resp) ==
    IF resp.lastError \/ resp.res = "none" \/ resp.res \in {"error", "timeout"}
    THEN "null"
    ELSE "dataUrl"

\* The rate limit: how long a call sleeps before its first request.
Wait(now, last) == MIN_CAPTURE_INTERVAL - (now - last)

\* The test of the attempt loop.
AttemptsUnbounded(attempt) == TRUE
AttemptsLeft(attempt) == attempt < CAPTURE_ATTEMPTS

\* The issue times of the last two requests, the newest last.
Logged(times, now) ==
    IF times = <<>> THEN <<now>> ELSE <<times[Len(times)], now>>

\* The executor of the promise: lastCaptureTime is set, captureTab is sent.
Issue(c, attempt) ==
    /\ lastCaptureTime' = clock
    /\ captureLog' = [captureLog EXCEPT !.times = Logged(@, clock)]
    /\ shots' = [shots EXCEPT ![c].pc = "pending", ![c].attempt = attempt,
                              ![c].wake = clock, ![c].issued = @ + 1]

\* The loop test with the attempt that comes next: a request, or return null.
NextAttempt(c, attempt) ==
    IF AttemptsLeft(attempt)
    THEN Issue(c, attempt)
    ELSE /\ shots' = [shots EXCEPT ![c].pc = "returned", ![c].result = "null",
                                   ![c].attempt = attempt, ![c].wake = 0]
         /\ UNCHANGED <<lastCaptureTime, captureLog>>

progVars == <<backupRunning, abortRequested, keepaliveInterval, progressState,
              pc, run, sub, cas, cyc, ssv, cli, page, env,
              isRunning, backupZip, rootFolderName, activeTabId, backupStatus,
              pkgs, notifications, toContent, toBg, budget, hist>>

\* requestScreenshot is called: it sleeps for the rest of the interval, or goes
\* straight to its first request.
ShotCall(c) ==
    /\ shots[c].pc \in {"idle", "returned"}
    /\ captureLog.calls < MaxShots
    /\ IF Wait(clock, lastCaptureTime) > 0
       THEN /\ shots' = [shots EXCEPT ![c] = [ShotIdle EXCEPT
                             !.pc = "rate_sleep",
                             !.wake = clock + Wait(clock, lastCaptureTime)]]
            /\ captureLog' = [captureLog EXCEPT !.calls = @ + 1]
            /\ UNCHANGED lastCaptureTime
       ELSE /\ lastCaptureTime' = clock
            /\ captureLog' = [captureLog EXCEPT !.times = Logged(@, clock),
                                                !.calls = @ + 1]
            /\ shots' = [shots EXCEPT ![c] = [ShotIdle EXCEPT
                             !.pc = "pending", !.wake = clock, !.issued = 1]]
    /\ UNCHANGED <<clock, canvas, progVars, sending, captures>>

\* sleep(wait) is over: the first request.
ShotWake(c) ==
    /\ shots[c].pc = "rate_sleep"
    /\ clock >= shots[c].wake
    /\ Issue(c, 0)
    /\ UNCHANGED <<clock, canvas, progVars, sending, captures>>

\* The callback of sendMessage runs: the image is returned, or the backoff starts.
ShotResponse(c) ==
    /\ shots[c].pc = "pending"
    /\ \E resp \in CaptureResponses :
         IF Resolve(resp) # "null"
         THEN /\ shots' = [shots EXCEPT ![c].pc = "returned", ![c].result = "dataUrl",
                                        ![c].wake = 0]
              /\ UNCHANGED captureLog
         ELSE /\ captureLog.failed < MaxCaptureFails
              /\ captureLog' = [captureLog EXCEPT !.failed = @ + 1]
              /\ shots' = [shots EXCEPT ![c].pc = "backoff",
                             ![c].wake = clock + BACKOFF_BASE * (shots[c].attempt + 1)]
    /\ UNCHANGED <<clock, lastCaptureTime, canvas, progVars, sending, captures>>

\* The backoff is over: attempt++, then the loop test.
ShotBackoff(c) ==
    /\ shots[c].pc = "backoff"
    /\ clock >= shots[c].wake
    /\ NextAttempt(c, shots[c].attempt + 1)
    /\ UNCHANGED <<clock, canvas, progVars, sending, captures>>

\* Time passes, for as long as it matters (a call is in progress, or a new
\* call would still have to wait). A timer that is due fires before the next
\* step of the clock, and a response takes at most one step.
Tick ==
    /\ clock < EndTime
    /\ \/ \E c \in Callers : shots[c].pc \notin {"idle", "returned"}
       \/ Wait(clock, lastCaptureTime) > 0
    /\ \A c \in Callers :
         /\ shots[c].pc \in {"rate_sleep", "backoff"} => clock < shots[c].wake
         /\ shots[c].pc = "pending" => clock = shots[c].wake
    /\ clock' = clock + TickMs
    /\ UNCHANGED <<lastCaptureTime, shots, captureLog, canvas, progVars, sending, captures>>


\* ----------------------------------------------------------- the stitcher
\* Math.round of the non-negative quotient num / den (halves round up).
Round(num, den) == (2 * num + den) \div (2 * den)

\* The rows one later capture contributes: Math.round(scrollDeltas[i] * scale),
\* with scale = width / window.innerWidth.
NewPxUnscaled(delta, width, innerWidth) == delta
NewPx(delta, width, innerWidth) == Round(delta * width, innerWidth)

\* The first loop: totalHeight.
RECURSIVE TotalHeight(_, _, _, _)
TotalHeight(imgHeight, deltas, width, innerWidth) ==
    IF deltas = <<>>
    THEN imgHeight
    ELSE TotalHeight(imgHeight, SubSeq(deltas, 1, Len(deltas) - 1), width, innerWidth)
         + NewPx(deltas[Len(deltas)], width, innerWidth)

\* The second loop: the drawImage calls for images[1..], each with its source
\* row, its height and its destination row y.
RECURSIVE DrawLater(_, _, _, _, _, _)
DrawLater(i, y, imgHeight, deltas, width, innerWidth) ==
    IF i > Len(deltas)
    THEN <<>>
    ELSE LET newPx == NewPx(deltas[i], width, innerWidth) IN
         <<[img |-> i + 1, srcY |-> imgHeight - newPx, rows |-> newPx, destY |-> y]>>
         \o DrawLater(i + 1, y + newPx, imgHeight, deltas, width, innerWidth)

stitchScreenshots(c) ==
    [c EXCEPT !.done = TRUE,
              !.width = c.imgWidth,
              !.height = TotalHeight(c.imgHeight, c.scrollDeltas, c.imgWidth, c.innerWidth),
              !.draws = <<[img |-> 1, srcY |-> 0, rows |-> c.imgHeight, destY |-> 0]>>
                        \o DrawLater(1, c.imgHeight, c.imgHeight, c.scrollDeltas,
                                     c.imgWidth, c.innerWidth)]

\* The images are loaded: the stitcher runs to its end.
Stitch ==
    /\ ~canvas.done
    /\ canvas.imgHeight > 0
    /\ canvas' = stitchScreenshots(canvas)
    /\ UNCHANGED <<clock, lastCaptureTime, shots, captureLog, progVars, sending, captures>>


\* ------------------------------------------------------------ the scenarios
RECURSIVE SeqsUpTo(_, _)
SeqsUpTo(S, n) ==
    IF n = 0 THEN {<<>>}
    ELSE LET shorter == SeqsUpTo(S, n - 1) IN
         shorter \cup {Append(q, x) : q \in shorter, x \in S}

OptAll ==
    [screenshots |-> TRUE, cli |-> TRUE, profiles |-> TRUE,
     hasSelection |-> FALSE, selectedTabs |-> {}]
OptSelected ==
    [screenshots |-> TRUE, cli |-> FALSE, profiles |-> FALSE,
     hasSelection |-> TRUE, selectedTabs |-> {"tab_setup", "tab_presets"}]
OptShots ==
    [screenshots |-> TRUE, cli |-> FALSE, profiles |-> FALSE,
     hasSelection |-> FALSE, selectedTabs |-> {}]
OptCliOnly ==
    [screenshots |-> FALSE, cli |-> TRUE, profiles |-> FALSE,
     hasSelection |-> TRUE, selectedTabs |-> {}]

DisplayShown == [el \in Elements |-> IF el = "statusbar" THEN "flex" ELSE "block"]
DisplayFooterGone == [el \in Elements |-> IF el = "statusbar" THEN "flex" ELSE "none"]

\* A page with one short panel, no sub-tabs and no profile selects.
PlainEnv ==
    [tabs |-> <<"tab_setup">>, labels |-> <<"Setup">>, optionChoices |-> {OptAll},
     navReadyAfter |-> 0, expertChecked |-> TRUE, subTabCount |-> 0,
     pidCount |-> 0, rateCount |-> 0, pid0 |-> 0, rate0 |-> 0,
     display0 |-> DisplayShown, scrollHeight |-> 600, clientHeight |-> 600,
     fixedBottom |-> {}, belowScroll |-> {}]

NoBudget == [starts |-> 1, stops |-> 0, faults |-> 0, switchFaults |-> 0]

Labels(tabs) == [i \in 1..Len(tabs) |-> EnglishName(tabs[i])]

\* Panel lists, blacklisted panels among them; the user may stop the run.
NavScenarios ==
    {<<[PlainEnv EXCEPT !.tabs = t, !.labels = Labels(t),
                        !.optionChoices = {OptAll, OptSelected}],
       [NoBudget EXCEPT !.stops = 1]>> :
       t \in SeqsUpTo({"tab_setup", "tab_presets", "tab_firmware_flasher", "tab_landing"},
                       MaxTabs) \ {<<>>}}

\* One panel, started and stopped at will.
RestartScenarios ==
    {<<PlainEnv, [NoBudget EXCEPT !.starts = MaxStarts, !.stops = MaxStops]>>}

\* Two panels; navigation links, captures and the packaging may fail.
FaultScenarios ==
    {<<[PlainEnv EXCEPT !.tabs = <<"tab_setup", "tab_setup_osd">>,
                        !.labels = <<"Setup", "OSD">>, !.scrollHeight = h,
                        !.optionChoices = {OptAll, OptShots}],
       [NoBudget EXCEPT !.faults = MaxFaults]>> : h \in {600, 1500}}

\* Screenshots only, over three panels that do not scroll.
PlainScenarios ==
    {<<[PlainEnv EXCEPT !.tabs = <<"tab_setup", "tab_setup_osd", "tab_pid_tuning">>,
                        !.labels = <<"Setup", "OSD", "PID Tuning">>,
                        !.optionChoices = {OptShots}],
       [NoBudget EXCEPT !.stops = 1]>>}

\* The navigation appears late or never; expert mode is off.
DiscoveryScenarios ==
    {<<[PlainEnv EXCEPT !.navReadyAfter = n, !.expertChecked = FALSE],
       [NoBudget EXCEPT !.stops = 1]>> : n \in {1, DISCOVERY_ATTEMPTS}}

\* A tall panel with bottom bars, captured by scrolling.
CaptureScenarios ==
    {<<[PlainEnv EXCEPT !.scrollHeight = 1500, !.fixedBottom = fb, !.belowScroll = bs,
                        !.display0 = d],
       [NoBudget EXCEPT !.stops = 1, !.faults = 1]>> :
       fb \in SUBSET Elements, bs \in SUBSET Elements,
       d \in {DisplayShown, DisplayFooterGone}}
    \cup
    {<<[PlainEnv EXCEPT !.scrollHeight = 1500, !.fixedBottom = {"statusbar"},
                        !.subTabCount = 2],
       [NoBudget EXCEPT !.stops = 1]>>}

\* One panel of several heights, captured by scrolling without faults.
ScrollHeights == {701, 1203, 1500, 1803, 2000}
ScrollScenarios ==
    {<<[PlainEnv EXCEPT !.scrollHeight = h], NoBudget>> : h \in ScrollHeights}

\* The PID tuning panel with its profile selects.
CyclingScenarios ==
    {<<[PlainEnv EXCEPT !.tabs = <<"tab_pid_tuning">>, !.labels = <<"PID Tuning">>,
                        !.pidCount = pc0, !.rateCount = rc0, !.subTabCount = sc,
                        !.pid0 = IF pc0 = 0 THEN 0 ELSE 1,
                        !.rate0 = IF rc0 = 0 THEN 0 ELSE 1],
       [NoBudget EXCEPT !.stops = st, !.switchFaults = IF st = 0 THEN MaxSwitchFaults ELSE 0]>> :
       pc0 \in 0..MaxPidOptions, rc0 \in 0..MaxPidOptions, sc \in {0, 2, 3}, st \in {0, 1}}
    \cup
    {<<[PlainEnv EXCEPT !.tabs = <<"tab_pid_tuning">>, !.labels = <<"PID Tuning">>,
                        !.pidCount = 3, !.rateCount = 2, !.subTabCount = 3,
                        !.pid0 = 1, !.rate0 = 1],
       NoBudget>>}
    \cup
    {<<[PlainEnv EXCEPT !.tabs = <<"tab_pid_tuning">>, !.labels = <<"PID Tuning">>,
                        !.pidCount = 2, !.rateCount = 2, !.subTabCount = 3,
                        !.pid0 = 1, !.rate0 = 2, !.scrollHeight = 1500,
                        !.fixedBottom = {"statusbar"}],
       [NoBudget EXCEPT !.stops = 1]>>}

\* The console panel, alone or after a plain panel.
CliScenarios ==
    {<<[PlainEnv EXCEPT !.tabs = t, !.labels = Labels(t),
                        !.optionChoices = {OptAll, OptCliOnly}],
       [NoBudget EXCEPT !.stops = st, !.faults = IF st = 0 THEN MaxFaults ELSE 0]>> :
       t \in {<<"tab_cli">>, <<"tab_setup", "tab_cli">>}, st \in {0, 1}}

\* The same panels under different display languages: a.innerText is the
\* English name or a translation of it.
LocalLabels == {"Setup", "Einrichtung", "Voreinstellungen", "OSD"}
LabelScenarios ==
    {<<[PlainEnv EXCEPT !.tabs = t, !.labels = l, !.subTabCount = n,
                        !.optionChoices = {OptAll, OptSelected}],
       NoBudget>> :
       t \in {<<"tab_setup", "tab_presets">>, <<"tab_setup_osd", "tab_setup">>},
       l \in [1..2 -> LocalLabels], n \in {0, 2}}

Scenarios ==
    NavScenarios \cup RestartScenarios \cup FaultScenarios \cup DiscoveryScenarios
        \cup CaptureScenarios \cup CyclingScenarios \cup CliScenarios
        \cup LabelScenarios \cup PlainScenarios \cup ScrollScenarios

Init == \E s \in Scenarios : InitFrom(s[1], s[2]) /\ SvcIdle

Next ==
    \/ UserStart
    \/ StopBackup
    \/ BgReceive
    \/ GenerateSettles
    \/ DownloadSettles
    \/ OnMessage
    \/ SbpEntry
    \/ ExpertSettled
    \/ Discover
    \/ DiscoverRetry
    \/ LoopTop
    \/ Dispatch
    \/ Advance
    \/ Finish
    \/ Unwind
    \/ CasMeasure
    \/ CasSingle
    \/ CasLoop
    \/ CasShot
    \/ CasStitched
    \/ SubEntry
    \/ SubCapture
    \/ SubNext
    \/ SsvAttempt
    \/ SsvVerify
    \/ PidEntry
    \/ PidLoop
    \/ PidSwitched
    \/ PidCaptured
    \/ RatePhase
    \/ RateLoop
    \/ RateSwitched
    \/ RateCaptured
    \/ FilterPhase
    \/ RestorePid
    \/ RestoreRate
    \/ PidReturn
    \/ CliEntry
    \/ CliReady
    \/ CliCommand
    \/ CliSent
    \/ CliWaitTop
    \/ CliPoll
    \/ CliRead
    \/ CliAfterWait

Spec == Init /\ [][Next]_vars


\* ------------------------------------------- the filter on arbitrary inputs
FilterOptions ==
    {o \in [screenshots : BOOLEAN, cli : BOOLEAN, profiles : {FALSE},
            hasSelection : BOOLEAN,
            selectedTabs : SUBSET {"tab_presets", "tab_setup", "tab_cli", "tab_pid_tuning"}] :
       ~o.hasSelection => o.selectedTabs = {}}

FilterScenarios ==
    {<<[PlainEnv EXCEPT !.tabs = t, !.labels = Labels(t), !.optionChoices = FilterOptions],
       NoBudget>> : t \in SeqsUpTo(Classes, MaxTabs)}

FilterInit == \E s \in FilterScenarios : InitFrom(s[1], s[2]) /\ SvcIdle

\* A run up to the filtered panel list.
FilterNext ==
    \/ UserStart
    \/ OnMessage
    \/ SbpEntry
    \/ Discover

FilterSpec == FilterInit /\ [][FilterNext]_vars


\* ------------------------------------ the capture service under its callers
CaptureInit == InitFrom(PlainEnv, NoBudget) /\ SvcIdle

CaptureNext ==
    \/ \E c \in Callers : ShotCall(c)
    \/ \E c \in Callers : ShotWake(c)
    \/ \E c \in Callers : ShotResponse(c)
    \/ \E c \in Callers : ShotBackoff(c)
    \/ Tick

CaptureSpec == CaptureInit /\ [][CaptureNext]_vars


\* ---------------------------------------------- the stitcher on its inputs
\* Captures of one size, taken at device scale 1, 2 or 1.5, and up to
\* MaxDeltas scroll steps of at most one viewport.
StitchDeltas == {100, 301, 380, 400}
StitchInputs ==
    { [NoCanvas EXCEPT !.imgHeight = (h * w) \div 800, !.imgWidth = w, !.innerWidth = 800,
                       !.scrollDeltas = d] :
        h \in {400, 600}, w \in {800, 1200, 1600}, d \in SeqsUpTo(StitchDeltas, MaxDeltas) }

StitchInit ==
    /\ InitFrom(PlainEnv, NoBudget)
    /\ clock = StartTime
    /\ lastCaptureTime = 0
    /\ shots = [c \in Callers |-> ShotIdle]
    /\ captureLog = [times |-> <<>>, calls |-> 0, failed |-> 0]
    /\ canvas \in StitchInputs
    /\ sending = [pc |-> "idle"]
    /\ captures = <<>>

StitchNext == Stitch

StitchSpec == StitchInit /\ [][StitchNext]_vars


\* ------------------------------- the exchanges with the background on their own
\* if (bridgeResult === true) return true;
BridgeSucceededNever(res) == FALSE
BridgeSucceeded(res) == res = "true"

\* One call of cliSend. sending.bridge is what the background's "send" ends
\* with (the terminal took the text, no terminal was found, the terminal has
\* none of paste/input/write, executeScript failed, the message itself failed);
\* xterm and input say whether the page has the terminal's helper textarea and
\* a visible command field; tried lists the strategies attempted, typed counts
\* the characters keyed into the textarea.
cliSend ==
    /\ \/ /\ sending.pc = "called"
          /\ sending' = [sending EXCEPT !.pc = "bridge", !.tried = Append(@, "bridge")]
       \/ /\ sending.pc = "bridge"
          /\ LET res == IF sending.bridge = "pasted" THEN "true" ELSE "false"
                 s == [sending EXCEPT !.bridgeResult = res]
             IN  sending' =
                   IF BridgeSucceeded(res)
                   THEN [s EXCEPT !.pc = "returned", !.result = "true"]
                   ELSE IF sending.xterm
                   THEN [s EXCEPT !.pc = "keys", !.tried = Append(@, "keys")]
                   ELSE IF sending.input
                   THEN [s EXCEPT !.pc = "input", !.tried = Append(@, "input")]
                   ELSE [s EXCEPT !.pc = "returned", !.result = "false"]
       \/ /\ sending.pc = "keys"
          /\ sending.typed < Len(CliCmd(sending.cmd))
          /\ sending' = [sending EXCEPT !.typed = @ + 1]
       \/ /\ sending.pc = "keys"
          /\ sending.typed = Len(CliCmd(sending.cmd))
          /\ sending' = [sending EXCEPT !.pc = "returned", !.result = "true"]
       \/ /\ sending.pc = "input"
          /\ sending' = [sending EXCEPT !.pc = "returned", !.result = "true"]
    /\ UNCHANGED <<clock, lastCaptureTime, shots, captureLog, canvas, captures>>
    /\ UNCHANGED progVars

\* if (!responded) of the timer, if (responded) return of the callback
RespondedNever(h) == FALSE
Responded(h) == h.responded

\* The captureTab handler for the request of caller c: the request arrives,
\* the 10 s timer fires, or captureVisibleTab calls back with the image or
\* with chrome.runtime.lastError set. sent lists the sendResponse calls.
captureTab(c) ==
    /\ LET h == captures[c] IN
       \/ /\ h.pc = "none"
          /\ captures' = [captures EXCEPT ![c] = [pc |-> "open", responded |-> FALSE,
                                                  timer |-> "armed",
                                                  callback |-> "pending",
                                                  sent |-> <<>>]]
       \/ /\ h.timer = "armed"
          /\ captures' = [captures EXCEPT ![c] =
                 IF ~Responded(h)
                 THEN [h EXCEPT !.timer = "fired", !.responded = TRUE,
                                !.sent = Append(@, "timeout error")]
                 ELSE [h EXCEPT !.timer = "fired"]]
       \/ /\ h.callback = "pending"
          /\ \E res \in {"image", "capture error"} :
               captures' = [captures EXCEPT ![c] =
                 IF Responded(h)
                 THEN [h EXCEPT !.callback = "called"]
                 ELSE [h EXCEPT !.callback = "called", !.responded = TRUE,
                                !.timer = IF @ = "armed" THEN "cleared" ELSE @,
                                !.sent = Append(@, res)]]
    /\ UNCHANGED <<clock, lastCaptureTime, shots, captureLog, canvas, sending>>
    /\ UNCHANGED progVars

MessageInit ==
    /\ InitFrom(PlainEnv, NoBudget)
    /\ clock = StartTime
    /\ lastCaptureTime = 0
    /\ shots = [c \in Callers |-> ShotIdle]
    /\ captureLog = [times |-> <<>>, calls |-> 0, failed |-> 0]
    /\ canvas = NoCanvas
    /\ sending \in {[pc |-> "called", cmd |-> c, bridge |-> b, xterm |-> x, input |-> i,
                     bridgeResult |-> "none", typed |-> 0, tried |-> <<>>,
                     result |-> "none"] :
                       c \in {0, 1},
                       b \in {"pasted", "not found", "no method", "script error",
                              "message error"},
                       x \in BOOLEAN, i \in BOOLEAN}
    /\ captures = [c \in Callers |-> [pc |-> "none", responded |-> FALSE,
                                      timer |-> "none", callback |-> "none",
                                      sent |-> <<>>]]

MessageNext ==
    \/ cliSend
    \/ \E c \in Callers : captureTab(c)

MessageSpec == MessageInit /\ [][MessageNext]_vars


\* ------------------------------------------------------------- properties
Ended == hist.outcome \in {"complete", "failed", "cancelled"}

\* The listener consumes a runExtraction message while a run is active.
DuplicateConsumed ==
    /\ toContent # <<>>
    /\ Head(toContent).action = "runExtraction"
    /\ backupRunning
    /\ toContent' = Tail(toContent)

\* handleStartBackup is called while isRunning is true.
StartWhileRunning == isRunning /\ budget'.starts < budget.starts

\* C1: a start request received while a run is active is rejected and never
\* queued.  At most one startBackupProcess is in progress at any time; a
\* runExtraction message consumed while backupRunning is true starts no run and
\* leaves backupRunning, abortRequested and the place and locals of the active
\* run unchanged, so nothing is kept from it that could start a run later; and
\* handleStartBackup called while isRunning is true creates no archive and sends
\* no runExtraction.
C1_StartWhileActiveRejected ==
    /\ [](hist.activeRuns <= 1)
    /\ [][DuplicateConsumed =>
            /\ backupRunning' = backupRunning
            /\ abortRequested' = abortRequested
            /\ pc' = pc
            /\ run' = run
            /\ hist'.runs = hist.runs]_vars
    /\ [][StartWhileRunning =>
            /\ backupZip' = backupZip
            /\ rootFolderName' = rootFolderName
            /\ toContent' = toContent
            /\ isRunning']_vars

\* A duplicate runExtraction was dropped by the content script and a start was
\* rejected by the background, with a run still active.
C1_Witness == hist.dropped >= 1 /\ hist.rejected >= 1 /\ backupRunning

\* Control has left handlePidTuningTab after it entered cycling.
LeftCycling ==
    \/ hist.cycling = "returned"
    \/ hist.cycling = "entered" /\ pc \in {"throw", "idle"}

RestoreInvoked ==
    /\ hist.restorePid = hist.origPid
    /\ hist.hasRate => hist.restoreRate = hist.origRate

\* C2: every execution of handlePidTuningTab that enters cycling invokes, before
\* control leaves the unit, setSelectValueVerified for the PID select with the
\* value recorded before cycling and, when a rate select was found, for the rate
\* select with its recorded value.
C2_RestoreInvokedBeforeLeaving == LeftCycling => RestoreInvoked

C4_RestoreAttemptedOnCancel ==
    (hist.outcome = "cancelled" /\ hist.cancelInCycling) => RestoreInvoked

\* The places of captureAndSave at which the bottom bars are hidden.
HidingPcs == {"cas_wait", "cas_shot", "cas_stitch"}

\* C5: on every way of leaving the scrollable path of captureAndSave (normal
\* completion, failed capture, failed stitch, abort inside the scroll loop) each
\* hidden element's display equals the value it had before it was hidden: outside
\* the scroll loop the display of every element is the one the page started with.
C5_DisplayRestoredOnExit == pc \notin HidingPcs => page.display = env.display0

\* The scroll loop was left by the abort with elements hidden.
C5_Witness ==
    /\ hist.hideExit = "abort"
    /\ pc = "throw"
    /\ env.fixedBottom \cap env.belowScroll # {}

\* C6: at every connectivity checkpoint the run is aborted exactly when the probe
\* returns explicit disconnected: a connection-lost error implies the probe said
\* false; after a probe said false the run is unwinding or over, no panel is
\* navigated or dispatched, progress does not advance and extractionComplete is
\* not sent.
C6_AbortExactlyOnDisconnected ==
    /\ [](run.err = "Connection lost" => hist.probeDisconnected)
    /\ [](hist.probeDisconnected => (pc \in {"throw", "idle"} /\ hist.outcome # "complete"))
    /\ [][(hist.probeDisconnected /\ hist'.runs = hist.runs) =>
            /\ hist'.clicks = hist.clicks
            /\ hist'.dispatched = hist.dispatched
            /\ progressState' = progressState
            /\ \/ toBg' = toBg
               \/ toBg # <<>> /\ toBg' = Tail(toBg)
               \/ toBg' = Append(toBg, [action |-> "extractionError",
                                        message |-> "Connection lost"])]_vars

\* A run failed on a disconnected probe after a panel had been dispatched.
C6_Witness ==
    /\ hist.probeDisconnected
    /\ hist.outcome = "failed"
    /\ hist.dispatched # <<>>

\* The inclusion predicate as the claim words it.
IncludedAsClaimed(cls, o) ==
    /\ ~Blacklisted(cls)
    /\ IF cls = "tab_cli" THEN o.cli
       ELSE o.screenshots /\ (~o.hasSelection \/ cls \in o.selectedTabs)

\* The inclusion predicate with an empty selection counted as no selection.
IncludedAmended(cls, o) ==
    /\ ~Blacklisted(cls)
    /\ IF cls = "tab_cli" THEN o.cli
       ELSE o.screenshots /\ (~o.hasSelection \/ o.selectedTabs = {}
                                \/ cls \in o.selectedTabs)

C8_NoClickOnBlacklisted ==
    \A i \in 1..Len(hist.clicks) :
        hist.clicks[i] \notin {"tab_landing", "tab_firmware_flasher", "tab_presets"}

\* A panel was clicked in a run whose page shows a blacklisted panel that the
\* selection names.
C8_Witness ==
    /\ Len(hist.clicks) >= 1
    /\ "tab_presets" \in SeqToSet(env.tabs)
    /\ run.options.hasSelection
    /\ "tab_presets" \in run.options.selectedTabs

\* C9: once the cancellation flag is set while the panel loop is running, the
\* run terminates in the cancelled state (stated for the runs in which no probe
\* reported a lost connection).
C9_CancelEndsCancelled ==
    (hist.cancelInLoop /\ Ended /\ ~hist.probeDisconnected) => hist.outcome = "cancelled"

\* C10: a run ended by user cancellation is not reported as a failure: the
\* content script emits no extractionError, and the background publishes no
\* backupError status and no 'Backup Failed' notification for it.
C10_CancelNotReportedAsFailure ==
    hist.outcome = "cancelled" =>
        /\ "extractionError" \notin SeqToSet(hist.emitted)
        /\ backupStatus.action # "backupError"
        /\ <<"backup-error", "Backup stopped by user.">> \notin notifications


\* C11: any two consecutive captureTab requests of the capture service are at
\* least MIN_CAPTURE_INTERVAL apart, measured from the issue time of the earlier
\* one, also when several requestScreenshot calls are in progress at once.
C11_RequestsSpacedByInterval ==
    Len(captureLog.times) = 2 =>
        captureLog.times[2] - captureLog.times[1] >= MIN_CAPTURE_INTERVAL

\* C12: a call of requestScreenshot issues at most CAPTURE_ATTEMPTS (3)
\* captureTab requests; it returns the image of the attempt that succeeded
\* without a further request, and returns null, after exactly 3 requests and
\* no fourth, when every attempt failed.
C12_AtMostThreeAttempts ==
    \A c \in Callers :
        /\ shots[c].issued <= CAPTURE_ATTEMPTS
        /\ shots[c].pc = "returned" =>
             \/ shots[c].result = "dataUrl" /\ shots[c].issued = shots[c].attempt + 1
             \/ /\ shots[c].result = "null"
                /\ shots[c].issued = CAPTURE_ATTEMPTS
                /\ captureLog.failed >= CAPTURE_ATTEMPTS

C12_Witness ==
    \E c \in Callers :
        /\ shots[c].pc = "returned"
        /\ shots[c].result = "null"
        /\ shots[c].issued = CAPTURE_ATTEMPTS

\* The wait has returned because it declared the output stable.
DeclaredStable == pc = "cli_after_wait" /\ cli.stable >= 2

\* The polled lengths grew at every poll of this wait.
StrictlyGrowing(lens) == \A i \in 1..(Len(lens) - 1) : lens[i] < lens[i + 1]

\* C13: cliWaitForStableOutput declares the output stable only after two
\* consecutive polls whose length is non-empty and equal to the length of the
\* poll just before; an empty, shorter or longer poll never counts.
C13_StableOnlyAfterTwoUnchangedPolls ==
    DeclaredStable =>
        LET n == Len(cli.lens) IN
        /\ n >= 3
        /\ cli.lens[n] > 0
        /\ cli.lens[n] = cli.lens[n - 1]
        /\ cli.lens[n - 1] = cli.lens[n - 2]

\* C14: when the polled length strictly increases at every poll, the wait is
\* never ended by stability: it returns only when its time is used up (or is
\* left by cancellation).
C14_GrowingOutputNeverStable ==
    (pc = "cli_after_wait" /\ cli.lens # <<>> /\ StrictlyGrowing(cli.lens)) =>
        /\ ~DeclaredStable
        /\ cli.polls = MaxPolls

C14_Witness ==
    /\ pc = "cli_after_wait"
    /\ Len(cli.lens) = MaxPolls
    /\ StrictlyGrowing(cli.lens)
    /\ cli.lens[1] > 0

\* The device scale is a whole number.
IntegerScale(c) == c.imgWidth % c.innerWidth = 0

RECURSIVE SumScaled(_, _)
SumScaled(deltas, scale) ==
    IF deltas = <<>> THEN 0 ELSE deltas[1] * scale + SumScaled(Tail(deltas), scale)

\* C15: for equal-size captures and a whole-number device scale, the stitched
\* height is the first capture's height plus the sum of the scaled scroll
\* deltas; the first capture is drawn in full at the top; of each later capture
\* only the bottom (scaled delta) rows are copied, each right below the rows
\* before it, the last one ending at the output height; one capture without
\* deltas gives an output of the capture's own size.
C15_StitchedHeight ==
    (canvas.done /\ IntegerScale(canvas)) =>
        LET scale == canvas.imgWidth \div canvas.innerWidth
            n == Len(canvas.draws)
        IN  /\ n = Len(canvas.scrollDeltas) + 1
            /\ canvas.width = canvas.imgWidth
            /\ canvas.height = canvas.imgHeight + SumScaled(canvas.scrollDeltas, scale)
            /\ canvas.draws[1] = [img |-> 1, srcY |-> 0, rows |-> canvas.imgHeight, destY |-> 0]
            /\ \A i \in 2..n :
                 /\ canvas.draws[i].img = i
                 /\ canvas.draws[i].rows = canvas.scrollDeltas[i - 1] * scale
                 /\ canvas.draws[i].srcY + canvas.draws[i].rows = canvas.imgHeight
                 /\ canvas.draws[i].destY = canvas.draws[i - 1].destY + canvas.draws[i - 1].rows
            /\ canvas.draws[n].destY + canvas.draws[n].rows = canvas.height
            /\ n = 1 => canvas.height = canvas.imgHeight

C15_Witness ==
    /\ canvas.done
    /\ canvas.imgWidth = 2 * canvas.innerWidth
    /\ canvas.scrollDeltas = <<400, 380>>
    /\ canvas.height = canvas.imgHeight + 800 + 760

\* C16: the keepalive timer is active exactly for the duration of a run: it
\* is set from the entry of startBackupProcess to its exit, there is never more
\* than one timer, and no timer is left once the run flag is cleared.
C16_KeepaliveExactlyDuringRun ==
    /\ hist.timers <= 1
    /\ keepaliveInterval = (hist.timers = 1)
    /\ keepaliveInterval = (pc \notin {"idle", "sbp_entry"})
    /\ ~backupRunning => hist.timers = 0

C16_Witness ==
    /\ hist.runs >= 2
    /\ pc = "loop_top"
    /\ keepaliveInterval
    /\ hist.timers = 1

\* The place of x in the record of the steps of a run's exit (0 when absent).
Place(steps, x) ==
    IF \E i \in 1..Len(steps) : steps[i] = x
    THEN CHOOSE i \in 1..Len(steps) : steps[i] = x
    ELSE 0

\* The place of the terminal event in the steps of the last exit.
Reported ==
    Place(hist.emitted, "extractionComplete") + Place(hist.emitted, "extractionError")

\* C17: on every exit of a run (success, fatal error, cancellation) the
\* keepalive timer is stopped and the run flag is cleared before the terminal
\* event (extractionComplete or extractionError) is sent.
C17_CleanupBeforeReport ==
    hist.emitted # <<>> =>
        /\ Place(hist.emitted, "stopKeepalive") < Reported
        /\ Place(hist.emitted, "flagsCleared") < Reported

\* The panel descriptors with their display labels blanked, and the classes
\* of a list of descriptors.
Unlabelled(tabs) == [i \in 1..Len(tabs) |-> [cls |-> tabs[i].cls, label |-> "none"]]
ClassesOf(tabs) == [i \in 1..Len(tabs) |-> tabs[i].cls]

\* The panels a run over the same classes and options processes when no panel
\* carries a label, and the file names a run can emit, none made of a label.
PanelsWithoutLabels == ClassesOf(FilterTabs(Unlabelled(TabDescriptors), run.options))
UnitNames ==
    {"SubTab", "PID_Profile", "Rates_Profile", "Rates", "Filter",
     "diff_all.txt", "dump_all.txt"}

\* C18: the panels processed and every emitted folder and file name depend on
\* the panels' classes, their order and the options only: under any display
\* labels the panels processed are those processed without labels, and every
\* emitted name is the English name of a processed class or a fixed unit name.
C18_NamesIndependentOfLabels ==
    run.tabs # <<>> =>
      /\ ClassesOf(run.filteredTabs) = PanelsWithoutLabels
      /\ \A i \in 1..Len(hist.dispatched) :
           \E k \in i..Len(PanelsWithoutLabels) :
               hist.dispatched[i] = PanelsWithoutLabels[k]
      /\ \A f \in backupZip.files :
           f.run = hist.runs =>
             \/ f.folder = <<0, "CLI">> /\ f.file.base[3] \in UnitNames
             \/ \E k \in 1..Len(PanelsWithoutLabels) :
                  /\ f.folder = <<f.file.base[1], EnglishName(PanelsWithoutLabels[k])>>
                  /\ f.folder[1] <= k
                  /\ f.file.base[3] \in
                        UnitNames \cup {EnglishName(PanelsWithoutLabels[k])}

\* A panel whose label is not its English name has been captured and saved.
C18_Witness ==
    /\ \E i \in 1..Len(run.filteredTabs) :
         /\ run.filteredTabs[i].label \in {"Einrichtung", "Voreinstellungen"}
         /\ \E f \in backupZip.files :
              /\ f.run = hist.runs
              /\ f.folder[2] = EnglishName(run.filteredTabs[i].cls)
    /\ pc = "loop_top"

\* Nobody has stopped the run: the background still holds its archive.
Uncancelled ==
    /\ isRunning /\ ~abortRequested /\ backupZip.id # 0
    /\ \A i \in 1..Len(toContent) : toContent[i].action # "abortBackup"

\* No view of the scenario scrolls beyond the threshold.
NoScrolling == env.scrollHeight - env.clientHeight <= SCROLL_THRESHOLD

\* The file bases of the current run in the archive.
EmittedBases == {f.file.base : f \in {g \in backupZip.files : g.run = hist.runs}}

\* The assets of the cycling unit for P primary options, S secondary options
\* and T visible sub-panels, as the panel number idx names them.
CyclingAssets(idx, P, S, T) ==
    {<<idx, p, "PID_Profile">> : p \in 1..P}
    \cup (IF T > 1
          THEN IF S > 1 THEN {<<idx, r, "Rates_Profile">> : r \in 1..S}
                        ELSE {<<idx, 0, "Rates">>}
          ELSE {})
    \cup (IF T > 2 THEN {<<idx, 0, "Filter">>} ELSE {})

\* C19: in an uncancelled run of the cycling unit with P > 1 primary options,
\* S secondary options and T visible sub-panels, all captures succeeding and
\* no view scrolling, the assets emitted are exactly one per primary option,
\* for T > 1 one per secondary option (S > 1) or a single secondary capture,
\* and for T > 2 one capture of the global sub-panel.
C19_CyclingAssets ==
    (pc = "restore" /\ Uncancelled /\ NoScrolling /\ env.pidCount > 1) =>
        LET T == IF env.subTabCount > 1 THEN env.subTabCount ELSE 0 IN
        /\ EmittedBases = CyclingAssets(run.idx, env.pidCount, env.rateCount, T)
        /\ Cardinality(backupZip.files) = Cardinality(EmittedBases)

\* P = 3, S = 2, T = 3: six assets.
C19_Witness ==
    /\ pc = "restore"
    /\ Uncancelled
    /\ env.pidCount = 3 /\ env.rateCount = 2 /\ env.subTabCount = 3
    /\ Cardinality(backupZip.files) = 6

\* A run with screenshots only over panels that have no sub-panels and do not
\* scroll beyond the threshold.
PlainRun ==
    /\ run.tabs # <<>>
    /\ NoScrolling
    /\ env.subTabCount <= 1
    /\ run.options.screenshots /\ ~run.options.cli /\ ~run.options.profiles

\* The files of the current run in the archive.
RunFiles == {f \in backupZip.files : f.run = hist.runs}

\* C20: a panel that does not scroll beyond the threshold and has no
\* sub-panels is captured once, on the single-capture path (the scroll loop
\* and the stitcher are never entered), and gives one file when its capture
\* succeeds; a run with screenshots only over k such panels delivers exactly
\* k files to the archive.
C20_OneFilePerPlainPanel ==
    PlainRun =>
        /\ pc \notin {"cas_wait", "cas_shot", "cas_stitch"}
        /\ hist.singles = Len(hist.dispatched)
                          - (IF pc \in {"sub_entry", "cas_measure", "cas_single"}
                             THEN 1 ELSE 0)
        /\ Uncancelled =>
             /\ Cardinality(RunFiles) = hist.singles - hist.singleFails
             /\ \A f \in RunFiles : f.file.part = 0
        /\ (/\ pc = "finish"
            /\ Uncancelled
            /\ hist.singleFails = 0
            /\ Len(hist.dispatched) = Len(run.filteredTabs)) =>
               Cardinality(RunFiles) = Len(run.filteredTabs)

\* Three plain panels, three files.
C20_Witness ==
    /\ PlainRun
    /\ pc = "finish"
    /\ Uncancelled
    /\ Len(run.filteredTabs) = 3
    /\ Cardinality(RunFiles) = 3

\* The terminal event of a completed run is on its way to the background.
CompleteInFlight == \E i \in 1..Len(toBg) : toBg[i].action = "extractionComplete"

\* C21: panel discovery is attempted at most DISCOVERY_ATTEMPTS (10) times and
\* stops at the first attempt that finds a visible panel; when all 10 attempts
\* find none the run ends with a fatal error, no panel is visited and
\* extractionComplete is not sent.
C21_DiscoveryBounded ==
    /\ run.attempt < DISCOVERY_ATTEMPTS
    /\ run.tabs # <<>> => run.attempt = env.navReadyAfter
    /\ env.navReadyAfter >= DISCOVERY_ATTEMPTS =>
         /\ run.tabs = <<>>
         /\ hist.clicks = <<>> /\ hist.dispatched = <<>>
         /\ ~CompleteInFlight
         /\ hist.outcome \in {"none", "running", "failed"}
         /\ pc = "throw" => run.err = "Navigation not found"

C21_Witness ==
    /\ env.navReadyAfter >= DISCOVERY_ATTEMPTS
    /\ pc = "idle"
    /\ hist.outcome = "failed"
    /\ \E i \in 1..Len(toBg) : toBg[i].action = "extractionError"

\* The archives that have been handed to the packager or downloaded.
PackagedZips == {job.zip : job \in pkgs} \cup hist.downloads

\* C22: once the background has handled stopBackup for a run, no archive with
\* files captured by that run is packaged or downloaded (and so no
\* backupComplete is published for it), also when the stop comes after the
\* run's last cancellation checkpoint or a new start is accepted before the
\* content script has seen the abort.
C22_StoppedRunNeverPackaged ==
    \A z \in PackagedZips : \A f \in z.files : f.run \notin hist.stopped

\* The steps that begin an iteration of one of the content script's loops, as
\* pairs of places: the panel loop, the sub-panel loop, the scroll-capture
\* loop, the PID and rate option loops, the console command loop, the two
\* polling points of the quiescence wait, the discovery retry loop and the
\* switch-verification retry loop.
IterationSteps ==
    { <<"loop_top", "sleep_nav">>, <<"sub_captured", "sub_sleep">>,
      <<"cas_wait", "cas_shot">>, <<"pid_loop", "ssv_attempt">>,
      <<"rate_loop", "ssv_attempt">>, <<"cli_loop", "cli_sent">>,
      <<"cli_wait_top", "cli_poll_sleep">>, <<"cli_poll_sleep", "cli_read">>,
      <<"sleep_discover", "discover">>, <<"ssv_verify", "ssv_attempt">> }

\* C23: the cancellation flag is checked at the top of every iteration of
\* every loop and at every polling point, so no iteration of any loop begins
\* while the flag is set.
C23_NoIterationWhileCancelled ==
    [][abortRequested => <<pc, pc'>> \notin IterationSteps]_vars

\* C24: whenever the capture unit invokes the stitcher, the number of scroll
\* deltas it passes equals the number of images minus one, whatever the
\* sequence of capture successes and failures.
C24_DeltasOneLessThanImages ==
    pc = "cas_stitch" => Len(cas.scrollDeltas) = cas.parts - 1

\* C25: sub-panel handles are never reused across a suspension point, in the
\* panel capture unit and in the cycling unit alike: every click on a
\* sub-panel is made on an element located in the same synchronous step,
\* after the most recent await.
C25_SubTabsLocatedBeforeEachClick ==
    \A c \in hist.subClicks : c.located = c.at

\* The places to which setSelectValueVerified returns.
SwitchReturns == {"pid_switched", "rate_switched", "restore_pid_done", "restore_done"}

\* C26: setSelectValueVerified returns true only if the control then reports
\* the requested value; after a failed verification it sets again, at most
\* four sets in all, and then returns false without throwing; the cycling
\* unit goes on to capture the step whether the switch was verified or not.
C26_VerifiedSwitch ==
    [][ /\ ssv'.attempt <= SWITCH_RETRIES
        /\ pc = "ssv_verify" => pc' \in {"ssv_verify", "ssv_attempt", ssv.ret}
        /\ (pc = "ssv_verify" /\ pc' \in SwitchReturns) =>
              LET r == hist'.switched
                  shown == IF r.control = "pid" THEN page'.pidValue ELSE page'.rateValue IN
              /\ r.control = ssv.control /\ r.value = ssv.value
              /\ r.returned = "true" => shown = r.value
              /\ r.returned = "false" =>
                    /\ shown # r.value
                    /\ r.sets = SWITCH_RETRIES + 1
              /\ r.sets \in 1..(SWITCH_RETRIES + 1)
        /\ (pc \in {"pid_switched", "rate_switched"} /\ pc' # pc) => pc' = "cas_measure"
      ]_vars

\* A switch that failed four times has returned false and the step's capture
\* has been saved all the same.
C26_Witness ==
    /\ hist.switched.returned = "false"
    /\ hist.switched.sets = SWITCH_RETRIES + 1
    /\ pc = "pid_captured"
    /\ \E f \in backupZip.files : f.file.base = <<run.idx, cyc.p + 1, "PID_Profile">>

\* A capture of captureAndSave fails after its retries in this step.
FailedCapture ==
    /\ pc \in {"cas_single", "cas_shot"}
    /\ budget'.faults = budget.faults - 1

Saved(zip, folder, file) == \E f \in zip.files : f.folder = folder /\ f.file = file

\* C27: a capture that fails after its retries is skipped and never ends the
\* run: a warning status is published, captureAndSave returns normally to its
\* caller (through the stitcher when two or more parts were captured), the
\* parts captured before the failure are saved, and the run stays active.
C27_FailedCaptureSkipped ==
    [][ /\ FailedCapture =>
              /\ backupStatus' = Status("backupStatusUpdate", "WARNING: Screenshot failed",
                                        progressState)
              /\ pc' = IF pc = "cas_shot" /\ cas.parts >= 2 THEN "cas_stitch" ELSE cas.ret
              /\ cas.ret \in {"advance", "sub_captured", "pid_captured", "rate_captured",
                               "filter_phase", "restore"}
              /\ (pc = "cas_shot" /\ cas.parts = 1 /\ backupZip.id # 0) =>
                    Saved(backupZip', cas.folder, FileName(cas.base, 0))
              /\ UNCHANGED <<run, backupRunning, isRunning, toBg>>
        /\ (pc = "cas_stitch" /\ pc' # pc) =>
              /\ pc' = cas.ret
              /\ backupZip.id # 0 =>
                    \/ Saved(backupZip', cas.folder, FileName(cas.base, 0))
                    \/ \A n \in 1..cas.parts :
                          Saved(backupZip', cas.folder, FileName(cas.base, n))
      ]_vars

\* After a failure in the middle of a scroll capture the parts are in the
\* archive, the warning is the published status and the panel loop goes on.
C27_Witness ==
    /\ pc = "loop_top"
    /\ backupRunning /\ isRunning
    /\ backupStatus.message = "WARNING: Screenshot failed"
    /\ \E f \in backupZip.files : f.file.part = 2

\* The stitcher settles with null in this step: its draw loop read an image
\* that does not exist, or an image failed to decode.
StitchedNull ==
    \/ Len(cas.scrollDeltas) >= cas.parts
    \/ budget'.faults # budget.faults

\* C28: when the stitcher returns null for a multi-part capture, every part
\* is emitted as its own asset, numbered 1 to n, and none is dropped; when it
\* returns a composite, exactly one asset is emitted.
C28_PartsOrComposite ==
    [][ (pc = "cas_stitch" /\ pc' # pc /\ backupZip.id # 0) =>
          LET new == backupZip'.files \ backupZip.files IN
          /\ cas.parts >= 2
          /\ \A f \in new : f.folder = cas.folder /\ f.run = hist.runs
          /\ {f.file : f \in new} =
                IF StitchedNull
                THEN {FileName(cas.base, n) : n \in 1..cas.parts}
                ELSE {FileName(cas.base, 0)}
          /\ Cardinality(new) = IF StitchedNull THEN cas.parts ELSE 1
      ]_vars

\* Three parts were captured to the bottom, an image failed to decode, and the
\* three parts are in the archive without a composite.
C28_Witness ==
    /\ pc = "advance"
    /\ backupStatus.message # "WARNING: Screenshot failed"
    /\ \E f \in backupZip.files :
          /\ f.file.part = 3
          /\ \A n \in 1..3 : Saved(backupZip, f.folder, FileName(f.file.base, n))
          /\ ~Saved(backupZip, f.folder, FileName(f.file.base, 0))

RECURSIVE SumDeltas(_)
SumDeltas(deltas) == IF deltas = <<>> THEN 0 ELSE Head(deltas) + SumDeltas(Tail(deltas))

MaxScroll == env.scrollHeight - env.clientHeight

\* The most screenshots a scroll capture can need: one per step of
\* clientHeight pixels down to the clamped end, and the first.
MostParts == (MaxScroll + env.clientHeight - 1) \div env.clientHeight + 1

\* C29: on the scrolling path, with the page clamping the offset, the capture
\* loop terminates: every further iteration follows a strictly larger offset
\* that never exceeds the maximum, so the parts are bounded. When every
\* capture succeeds the loop ends within 5 px of the bottom; each recorded
\* delta is the measured change of the offset, and the deltas sum to the
\* final offset.
C29_ScrollLoop ==
    [][ /\ (pc = "cas_shot" /\ pc' = "cas_wait") =>
              /\ page'.scrollTop > page.scrollTop
              /\ page'.scrollTop <= MaxScroll
        /\ pc' \in {"cas_wait", "cas_shot", "cas_stitch"} =>
              /\ cas'.parts <= MostParts
              /\ \A i \in 1..Len(cas'.scrollDeltas) :
                    cas'.scrollDeltas[i] \in 1..env.clientHeight
        /\ pc' \in {"cas_shot", "cas_stitch"} =>
              SumDeltas(cas'.scrollDeltas) = page'.scrollTop
        /\ (pc = "cas_shot" /\ pc' # pc /\ pc' # "cas_wait" /\ budget' = budget
               /\ ~abortRequested) =>
              /\ MaxScroll - page.scrollTop <= BOTTOM_TOLERANCE
              /\ SumDeltas(cas.scrollDeltas) = page.scrollTop
      ]_vars

\* A three-part capture that ended 3 px above the bottom.
C29_Witness ==
    /\ pc = "cas_stitch"
    /\ cas.parts = 3
    /\ cas.scrollDeltas = <<600, 600>>
    /\ page.scrollTop = 1200
    /\ MaxScroll = 1203

\* The published actions on which the popup leaves its running state.
PopupLeavesRunning == {"backupComplete", "backupError"}

\* C30: a start rejected because a run is active leaves the published state
\* of the running run unchanged: the stored backupStatus is not overwritten
\* and nothing is published that makes the popup leave its running state.
C30_RejectedStartKeepsStatus ==
    [][StartWhileRunning =>
         /\ backupStatus' = backupStatus
         /\ backupStatus'.action \notin PopupLeavesRunning]_vars

\* The terminal events among the steps of the last exit.
TerminalEvents ==
    {i \in 1..Len(hist.emitted) :
        hist.emitted[i] \in {"extractionComplete", "extractionError"}}

\* The files a step adds to the archive the background holds.
NewlySaved ==
    IF backupZip'.id = backupZip.id THEN backupZip'.files \ backupZip.files
    ELSE backupZip'.files

\* C31: each run started in the content script emits exactly one terminal
\* event, extractionComplete or extractionError: none while it runs, one once
\* it has ended, never two; and no file is saved after it: every save is made
\* by the run in progress, before its terminal event.
C31_OneTerminalEvent ==
    [][ /\ Cardinality(TerminalEvents)' <= 1
        /\ backupRunning' => hist'.emitted = <<>>
        /\ (hist'.runs > 0 /\ ~backupRunning') => Cardinality(TerminalEvents)' = 1
        /\ (backupRunning /\ ~backupRunning') =>
              /\ Len(toBg') = Len(toBg) + 1
              /\ toBg'[Len(toBg')].action \in {"extractionComplete", "extractionError"}
        /\ NewlySaved # {} =>
              /\ backupRunning /\ backupRunning'
              /\ hist.emitted = <<>>
              /\ \A f \in NewlySaved : f.run = hist.runs
      ]_vars

\* Two runs have ended, one with extractionError and one with
\* extractionComplete, and the archive holds a file.
C31_Witness ==
    /\ hist.runs = 2
    /\ ~backupRunning
    /\ hist.emitted = <<"extractionComplete", "stopKeepalive", "flagsCleared">>
    /\ hist.stopped # {}
    /\ backupZip.files # {}

\* The places of startBackupProcess itself, the orchestration.
OrchestrationPlaces ==
    {"sbp_entry", "sleep_expert", "discover", "sleep_discover", "loop_top", "sleep_nav",
     "advance", "finish"}

\* The places of a run before its panel list is filtered.
BeforeFiltering == {"idle", "sbp_entry", "sleep_expert", "discover", "sleep_discover"}

\* The parts of C32 other than monotonicity: the bounds of current, the only
\* writer, and the total fixed after filtering.
ProgressWellFormed ==
    [][ /\ progressState'.current \in 0..progressState'.total
        /\ progressState' # progressState => pc \in OrchestrationPlaces
        /\ (backupRunning /\ backupRunning' /\ pc \notin BeforeFiltering) =>
              progressState'.total = progressState.total
      ]_vars

\* C32: progressState.current never decreases within a run and always
\* satisfies 0 <= current <= total; it is written only by the orchestration,
\* and total does not change after filtering.
C32_ProgressMonotone ==
    [][ /\ progressState'.current \in 0..progressState'.total
        /\ progressState' # progressState => pc \in OrchestrationPlaces
        /\ (backupRunning /\ backupRunning' /\ pc \notin BeforeFiltering) =>
              progressState'.total = progressState.total
        /\ (backupRunning /\ backupRunning') =>
              progressState'.current >= progressState.current
      ]_vars

\* A status event of the content script is published in this step.
ContentStatus ==
    /\ backupStatus' # backupStatus
    /\ backupStatus'.action = "backupStatusUpdate"
    /\ budget'.starts = budget.starts
    /\ Len(toBg') >= Len(toBg) /\ pkgs' = pkgs
    /\ pc # "idle"

\* C33: every status event emitted during a run carries a progress value set
\* during that run, never one left over from a previous run: before the
\* run's first setProgress nothing of an earlier run (only the initial 0 of 0)
\* is carried, and afterwards the run's own index and total.
C33_ProgressOfThisRun ==
    [][ ContentStatus =>
          IF pc \in BeforeFiltering
          THEN backupStatus'.current = 0 /\ backupStatus'.total = 0
          ELSE /\ backupStatus'.current = progressState'.current
               /\ backupStatus'.total = Len(run.filteredTabs)
      ]_vars

\* An abortBackup message is delivered to the listener in this step.
AbortDelivered ==
    /\ toContent # <<>>
    /\ Head(toContent).action = "abortBackup"
    /\ toContent' = Tail(toContent)

\* C34: an abort request received while no run is in progress does not cancel
\* the next run: the cancellation flag is false when a run begins and false
\* again when a run has ended, and during a run it is set only by an abort
\* delivered during that run, whatever the interleaving of start and abort
\* messages.
C34_IdleAbortForgotten ==
    [][ /\ (~backupRunning /\ backupRunning') => ~abortRequested'
        /\ (backupRunning /\ ~backupRunning') => ~abortRequested'
        /\ (backupRunning' /\ abortRequested') =>
              /\ backupRunning
              /\ abortRequested \/ AbortDelivered
      ]_vars

\* An abort arrived while no run was in progress, and the run begun after it
\* has reached its end with the flag still false.
C34_Witness ==
    /\ hist.idleAbort
    /\ backupRunning /\ ~abortRequested
    /\ pc = "finish"

\* The places of handlePidTuningTab's cycling branch and of the verified switch.
CyclingPlaces ==
    {"pid_loop", "pid_switched", "pid_captured", "rate_phase", "rate_loop", "rate_switched",
     "rate_captured", "filter_phase", "restore", "restore_pid_done", "restore_done",
     "ssv_attempt", "ssv_verify"}

\* C35: when no PID profile control is located, or it offers at most one
\* option, the cycling unit performs no switch on any control, neither to
\* cycle nor to restore, and captures the panel as the plain panel capture
\* unit would: it enters captureTabWithSubTabs with the panel's English
\* name, and the archive holds no asset of the cycling unit.
C35_NoCyclingWithoutOptions ==
    [][ env.pidCount <= 1 =>
          /\ pc' \notin CyclingPlaces
          /\ ssv' = SsvIdle /\ cyc' = CycIdle
          /\ page'.pidValue = env.pid0 /\ page'.rateValue = env.rate0
          /\ hist'.switched = NotSwitched /\ hist'.cycling = "no"
          /\ \A f \in backupZip'.files :
                f.file.base[3] \notin {"PID_Profile", "Rates_Profile", "Rates", "Filter"}
          /\ (pc = "pid_entry" /\ pc' # pc) =>
                /\ pc' = "sub_entry"
                /\ sub'.name = EnglishName(run.filteredTabs[run.ti].cls)
                /\ sub'.count = 0 /\ sub'.subIdx = 0
                /\ UNCHANGED <<page, backupZip, run>>
      ]_vars

\* The PID tuning panel with a single PID option and two rate options has
\* been captured through its two sub-tabs.
C35_Witness ==
    /\ env.pidCount = 1 /\ env.rateCount = 2
    /\ pc = "advance"
    /\ run.filteredTabs[run.ti].cls = "tab_pid_tuning"
    /\ run.options.profiles
    /\ \E f \in backupZip.files : f.file.base = <<run.idx, 2, "SubTab">>

\* The positions of cli.ops at which cliSend was called.
Sends(ops) == {i \in 1..Len(ops) : ops[i].op \in {"sent", "unsent"}}

\* The place of a command in the order of the extraction.
CmdOrder(cmd) == IF cmd = "diff all" THEN 1 ELSE 2

\* C36: a console extraction runs the two commands strictly in the order
\* diff all, dump all, one after the other; the terminal is cleared before each
\* command is sent, so every send directly follows a clear for the same
\* command; a command that cannot be sent is skipped without a wait or a read,
\* and the next command is still attempted.
C36_CommandsInOrder ==
    [][ LET ops == cli'.ops IN
        /\ \A i, j \in 1..Len(ops) : i < j => CmdOrder(ops[i].cmd) <= CmdOrder(ops[j].cmd)
        /\ \A i, j \in Sends(ops) : i < j => CmdOrder(ops[i].cmd) < CmdOrder(ops[j].cmd)
        /\ \A i \in Sends(ops) :
              /\ i > 1 /\ ops[i - 1] = [op |-> "clear", cmd |-> ops[i].cmd]
              /\ (ops[i].op = "unsent" /\ i < Len(ops)) =>
                    /\ ops[i + 1].op = "clear"
                    /\ ops[i + 1].cmd # ops[i].cmd
              /\ (ops[i].op = "sent" /\ i < Len(ops)) =>
                    ops[i + 1] = [op |-> "wait", cmd |-> ops[i].cmd]
        /\ (ops # <<>> /\ ops[1].op = "clear") => ops[1].cmd = "diff all"
        /\ (pc = "cli_sent" /\ pc' = "cli_loop") =>
              /\ cli'.c = cli.c + 1
              /\ ops[Len(ops)].op = "unsent"
        /\ (pc = "cli_loop" /\ cli.c < 2 /\ pc' \notin {pc, "throw"}) =>
              /\ pc' = "cli_sent"
              /\ ops[Len(ops)] = [op |-> "clear", cmd |-> CliCmd(cli.c)]
      ]_vars

\* The diff command could not be sent and was skipped; the dump command was
\* cleared for, sent, waited for and read.
C36_Witness ==
    /\ pc = "cli_loop"
    /\ cli.c = 2
    /\ cli.ops = << [op |-> "clear", cmd |-> "diff all"], [op |-> "unsent", cmd |-> "diff all"],
                    [op |-> "clear", cmd |-> "dump all"], [op |-> "sent", cmd |-> "dump all"],
                    [op |-> "wait", cmd |-> "dump all"], [op |-> "read", cmd |-> "dump all"] >>

\* The places of cliWaitForStableOutput.
WaitPlaces == {"cli_wait_top", "cli_poll_sleep", "cli_read"}

\* C37: cliWaitForStableOutput always terminates: every poll that does not
\* end the wait counts against the time limit, and when the limit is reached
\* without stability the wait returns normally; the extraction then reads
\* the buffer and goes on with the run. The only exception the wait raises
\* is the cancellation abort.
C37_WaitReturns ==
    [][ /\ pc \in WaitPlaces =>
              /\ pc' \in WaitPlaces \cup {"cli_after_wait", "throw"}
              /\ pc' = "throw" =>
                    abortRequested /\ run'.err = "Backup stopped by user."
        /\ pc' \in WaitPlaces => cli'.polls <= MaxPolls /\ cli'.stable < 2
        /\ (pc = "cli_read" /\ pc' = "cli_wait_top") => cli'.polls = cli.polls + 1
        /\ (pc = "cli_wait_top" /\ cli.polls >= MaxPolls /\ pc' # pc) =>
              pc' = "cli_after_wait"
        /\ (pc = "cli_after_wait" /\ pc' \notin {pc, "throw"}) =>
              /\ pc' = "cli_loop"
              /\ cli'.c = cli.c + 1
              /\ cli'.ops[Len(cli'.ops)].op = "read"
              /\ backupRunning'
        /\ (pc = "cli_after_wait" /\ pc' = "throw") => run'.err = "Connection lost"
      ]_vars

\* The time limit was reached without two stable polls and the wait has
\* returned.
C37_Witness ==
    /\ pc = "cli_after_wait"
    /\ cli.polls = MaxPolls
    /\ cli.stable < 2
    /\ Len(cli.lens) = MaxPolls
    /\ backupRunning

\* The final read of a command's output settles (handleCliTab, after the wait).
CliReadDone == pc = "cli_after_wait" /\ pc' = "cli_loop"

\* The asset of the command whose output was just read, in the open archive.
CliAsset == [folder |-> <<0, "CLI">>, file |-> FileName(<<0, cli.c, CliFile(cli.c)>>, 0),
             run |-> hist.runs]

\* What every final read does, saved or not: the run goes on with the next
\* command and no error is raised or reported.
CliGoesOn ==
    /\ cli'.c = cli.c + 1
    /\ backupRunning'
    /\ run'.err = run.err
    /\ toBg' = toBg

\* C39 as stated: the text is persisted exactly when its length is above the
\* noise threshold of 10; otherwise it is not persisted, a warning status is
\* published and the run continues with the next command.
C39_SavedIffLongerThanNoise ==
    [][ CliReadDone =>
          /\ CliGoesOn
          /\ IF cli'.out.len > NOISE_THRESHOLD
             THEN /\ backupStatus'.message = "saved"
                  /\ backupZip.id # 0 => CliAsset \in backupZip'.files
             ELSE /\ backupStatus'.message = "WARNING: No output."
                  /\ backupZip' = backupZip
      ]_vars

\* C39, amended: the length that is compared with the threshold is that of
\* the text without its leading and trailing whitespace.
C39_SavedIffTrimmedLongerThanNoise ==
    [][ CliReadDone =>
          /\ CliGoesOn
          /\ IF cli'.out.len - cli'.out.blank > NOISE_THRESHOLD
             THEN /\ backupStatus'.message = "saved"
                  /\ backupZip.id # 0 => CliAsset \in backupZip'.files
             ELSE /\ backupStatus'.message = "WARNING: No output."
                  /\ backupZip' = backupZip
      ]_vars

\* A text of exactly the threshold's length was read and dropped with a
\* warning, and the second command is next.
C39_Witness ==
    /\ pc = "cli_loop"
    /\ cli.c = 1
    /\ cli.out.len = NOISE_THRESHOLD
    /\ cli.out.blank = 0
    /\ backupStatus.message = "WARNING: No output."
    /\ backupZip.id # 0
    /\ ~\E f \in backupZip.files : f.folder = <<0, "CLI">> /\ f.run = hist.runs
    /\ backupRunning

\* C38: cliSend tries its strategies strictly in the order bridge, keystrokes
\* into the terminal's textarea, plain input field; a strategy is attempted
\* only after every earlier one was unavailable or failed, none is attempted
\* after one succeeded, and the call returns false exactly when none of the
\* three was available.
C38_FallbackChain ==
    sending.pc # "idle" =>
      LET t == sending.tried
          has(x) == \E k \in 1..Len(t) : t[k] = x
      IN  /\ t \in {<<>>, <<"bridge">>, <<"bridge", "keys">>, <<"bridge", "input">>}
          /\ has("keys") => sending.bridgeResult = "false" /\ sending.xterm
          /\ has("input") =>
                sending.bridgeResult = "false" /\ ~sending.xterm /\ sending.input
          /\ sending.bridgeResult = "true" =>
                t = <<"bridge">> /\ sending.bridge = "pasted"
          /\ sending.typed > 0 => has("keys")
          /\ sending.pc = "returned" =>
                /\ sending.result \in {"true", "false"}
                /\ sending.result = "false" <=>
                      /\ sending.bridge # "pasted"
                      /\ ~sending.xterm
                      /\ ~sending.input
                /\ has("keys") => sending.typed = Len(CliCmd(sending.cmd))

\* The bridge failed, the page has no terminal textarea, and the call
\* returned true after the third strategy.
C38_Witness ==
    /\ sending.pc = "returned"
    /\ sending.tried = <<"bridge", "input">>
    /\ sending.bridgeResult = "false"
    /\ sending.result = "true"

\* C40: the captureTab handler sends exactly one response per request,
\* whatever the order of its 10 s timer and the capture's callback: the image,
\* the capture's error or the timeout error, and never a second one.
C40_OneResponse ==
    [][ \A c \in Callers :
          LET h == captures[c]
              g == captures'[c]
          IN  /\ Len(g.sent) <= 1
              /\ h.sent # <<>> => g.sent = h.sent
              /\ (h.pc = "open" /\ g # h) =>
                    /\ Len(g.sent) = 1
                    /\ g.responded
                    /\ g.sent[1] \in {"image", "capture error", "timeout error"}
                    /\ g.sent[1] = "timeout error" <=> g.timer = "fired"
      ]_vars

\* Both orders have happened: one request was answered by its timer and its
\* callback came afterwards, the other was answered by its callback.
C40_Witness ==
    \E c, d \in Callers :
        /\ captures[c].sent = <<"timeout error">>
        /\ captures[c].callback = "called"
        /\ captures[d].sent = <<"image">>
        /\ captures[d].timer = "cleared"

====
